---- MODULE Spec2Model ----
(***************************************************************************)
(* Filter-state reconciliation engine of og_nl_2_filter.                   *)
(*                                                                         *)
(* Session State is the thread-local storage of src/tools/filter_tools.py; *)
(* every tool call of one request is one action.  Text that the code       *)
(* inspects (lower(), replace(), `in`, split()) is a sequence of           *)
(* one-character strings; enum values and filter values, which the code    *)
(* only compares for equality, are plain strings.  In a dictionary a key   *)
(* that is absent and a key whose value is None are both written Null:     *)
(* the engine reads both the same way and sanitize_response_object drops   *)
(* the None before anything is stored.                                     *)
(***************************************************************************)
EXTENDS Integers, Sequences, FiniteSets, TLC

VARIABLES
    account_summary_dict,      \* thread_local.account_summary_dict
    current_column_group_id,   \* thread_local.current_column_group_id
    user_query,                \* thread_local.user_query
    available_filters,         \* thread_local.available_filters
    current_filters,           \* thread_local.current_filters (FilterGroup objects)
    initial_filters,           \* thread_local.initial_filters
    delphi_session,            \* thread_local.delphi_session
    result,                    \* what the last tool call returned
    call,                      \* the last tool call: tool name and arguments
    before,                    \* Session State as it was when the last call began
    composed,                  \* per column-group id: the calls of the request folded over the initial list
    explicit_selection,        \* a select_column_group call of this request succeeded
    calls,                     \* number of tool calls made for this request
    response_data,             \* an object handed to sanitize_response_object
    sanitized,                 \* what the successive sanitize_response_object calls returned
    thread_state,              \* threading.local(): per attribute namespace, the Session State in it
    threads,                   \* per request thread: its request, its calls so far, the state of a run alone
    conversations,             \* ConversationStore._conversations: per conversation id, its messages
    lock,                      \* ConversationStore._lock: the thread holding it, or Null
    adding,                    \* per thread: where its add_message call stands, and what it adds
    acquired,                  \* per conversation id: the messages in the order their calls took the lock
    intermediate_steps,        \* AgentExecutor: the observations of the request's tool calls, in order
    response                   \* what process_request returns for the request

vars == << account_summary_dict, current_column_group_id, user_query,
           available_filters, current_filters, initial_filters, delphi_session, result, call,
           before, composed, explicit_selection, calls, response_data, sanitized,
           thread_state, threads, conversations, lock, adding, acquired,
           intermediate_steps, response >>

store_vars == << conversations, lock, adding, acquired >>

agent_vars == << intermediate_steps, response >>

----------------------------------------------------------------------------
(* Bounds of the model *)

\* tool calls the intent resolver makes for one request
MaxCalls == 2

\* column groups of a report handed to the column-group resolver
MaxGroups == 3

\* items of an innermost list in an object handed to sanitize_response_object
MaxItems == 2

\* times a response object is passed through sanitize_response_object
MaxPasses == 2

----------------------------------------------------------------------------
(* Text *)

Null == "<null>"

UpperCase == <<"A","B","C","D","E","F","G","H","I","J","K","L","M",
               "N","O","P","Q","R","S","T","U","V","W","X","Y","Z">>
LowerCase == <<"a","b","c","d","e","f","g","h","i","j","k","l","m",
               "n","o","p","q","r","s","t","u","v","w","x","y","z">>

\* str.isupper() of one character
IsUpper(c) == c \in {UpperCase[i] : i \in 1..26}

LowerTable ==
    [c \in {UpperCase[i] : i \in 1..26} |->
        LowerCase[CHOOSE i \in 1..26 : UpperCase[i] = c]]

LowerChar(c) == IF c \in DOMAIN LowerTable THEN LowerTable[c] ELSE c

\* str.lower()
Lower(s) == [i \in 1..Len(s) |-> LowerChar(s[i])]

\* str.replace(' ', '_')
SpaceToUnderscore(s) == [i \in 1..Len(s) |-> IF s[i] = " " THEN "_" ELSE s[i]]

\* needle in hay
Contains(hay, needle) ==
    \E i \in 0..(Len(hay) - Len(needle)) :
        SubSeq(hay, i + 1, i + Len(needle)) = needle

\* str.split(): the maximal runs of non-blank characters, in order
RECURSIVE SplitFrom(_, _, _)
SplitFrom(s, i, word) ==
    IF i > Len(s)
    THEN IF word = <<>> THEN <<>> ELSE <<word>>
    ELSE IF s[i] = " "
         THEN (IF word = <<>> THEN <<>> ELSE <<word>>) \o SplitFrom(s, i + 1, <<>>)
         ELSE SplitFrom(s, i + 1, Append(word, s[i]))

Split(s) == SplitFrom(s, 1, <<>>)

\* the texts of the requests and tool calls the model draws from
ActualsData == <<"A","c","t","u","a","l","s"," ","D","a","t","a">>
BudgetData == <<"B","u","d","g","e","t"," ","D","a","t","a">>
QueryPlain == <<"f","i","l","t","e","r"," ","b","y"," ","f","i","s","c","a","l"," ","p","e","r","i","o","d"," ","1","0">>
QueryBudget == <<"f","i","l","t","e","r"," ","b","y"," ","f","i","s","c","a","l"," ","p","e","r","i","o","d"," ","1","0"," ","f","o","r"," ","b","u","d","g","e","t">>
QueryActuals == <<"f","i","l","t","e","r"," ","a","c","t","u","a","l","s"," ","b","y"," ","f","i","s","c","a","l"," ","p","e","r","i","o","d"," ","1","0">>
account_type == <<"a","c","c","o","u","n","t","_","t","y","p","e">>
AccountTypeLabel == <<"A","c","c","o","u","n","t"," ","T","y","p","e">>
fiscal_period == <<"f","i","s","c","a","l","_","p","e","r","i","o","d">>
FiscalPeriodLabel == <<"F","i","s","c","a","l"," ","P","e","r","i","o","d">>
MsgDone == <<"F","i","l","t","e","r"," ","u","p","d","a","t","e","d",".">>
MsgRemoveAll == <<"R","e","m","o","v","e","d"," ","a","l","l"," ","f","i","l","t","e","r","s",".">>
MsgKeepsRest == <<"R","e","m","o","v","e","d"," ","F","i","s","c","a","l"," ","P","e","r","i","o","d","."," ","E","v","e","r","y","t","h","i","n","g"," ","e","l","s","e"," ","i","s"," ","u","n","c","h","a","n","g","e","d",".">>
RemovedAllText == <<"S","u","c","c","e","s","s","f","u","l","l","y"," ","r","e","m","o","v","e","d"," ","a","l","l"," ","f","i","l","t","e","r","s",".">>
SelBudget == <<"b","u","d","g","e","t">>
QueryProjected == <<"s","h","o","w"," ","p","r","o","j","e","c","t","e","d"," ","f","i","g","u","r","e","s">>
QueryForecastData == <<"s","h","o","w"," ","f","o","r","e","c","a","s","t"," ","d","a","t","a"," ","f","o","r"," ","p","e","r","i","o","d"," ","1","0">>
SelForecast == <<"F","o","r","e","c","a","s","t">>
ByFund == <<"B","y"," ","F","u","n","d">>
TypeAccount == <<"a","c","c","o","u","n","t"," ","t","y","p","e">>
TypeFund == <<"f","u","n","d"," ","t","y","p","e">>
TypeFiscal == <<"f","i","s","c","a","l"," ","p","e","r","i","o","d">>

RemoveAllKeywords ==
    << <<"a","l","l"," ","f","i","l","t","e","r","s">>,
       <<"r","e","m","o","v","e"," ","a","l","l">>,
       <<"c","l","e","a","r"," ","a","l","l">>,
       <<"d","e","l","e","t","e"," ","a","l","l">>,
       <<"e","v","e","r","y","t","h","i","n","g">> >>
synonyms ==
    << [key |-> <<"a","c","t","u","a","l">>,
         list |-> << <<"a","c","t","u","a","l","s">>,
                    <<"a","c","t","u","a","l"," ","d","a","t","a">> >>],
       [key |-> <<"b","u","d","g","e","t">>,
         list |-> << <<"b","u","d","g","e","t","s">>,
                    <<"b","u","d","g","e","t"," ","d","a","t","a">> >>],
       [key |-> <<"f","o","r","e","c","a","s","t">>,
         list |-> << <<"f","o","r","e","c","a","s","t","s">>,
                    <<"f","o","r","e","c","a","s","t"," ","d","a","t","a">>,
                    <<"p","r","o","j","e","c","t","e","d">> >>],
       [key |-> <<"p","l","a","n">>,
         list |-> << <<"p","l","a","n","n","e","d">>,
                    <<"p","l","a","n","n","i","n","g">> >>],
       [key |-> <<"p","r","i","o","r">>,
         list |-> << <<"p","r","e","v","i","o","u","s">>,
                    <<"l","a","s","t"," ","y","e","a","r">> >>],
       [key |-> <<"c","u","r","r","e","n","t">>,
         list |-> << <<"t","h","i","s"," ","y","e","a","r">>,
                    <<"c","y">> >>],
       [key |-> <<"p","y">>,
         list |-> << <<"p","r","i","o","r"," ","y","e","a","r">>,
                    <<"p","r","e","v","i","o","u","s"," ","y","e","a","r">> >>] >>

----------------------------------------------------------------------------
(* Data model: src/models/filter_models.py *)

FilterOperator == {"equal", "notEqual", "contains", "doesNotContain", "isBlank", "isNotBlank"}

FilterType == {"lens", "dimensions"}

LogicalOperator == {"and", "or"}

\* FilterCondition(**data): `value` is required; `operator` defaults to equal
FilterCondition(data) ==
    [columnName     |-> data.columnName,
     value          |-> data.value,
     operator       |-> IF data.operator = Null THEN "equal" ELSE data.operator,
     dimension      |-> data.dimension,
     joinColumnName |-> data.joinColumnName]

\* pydantic rejects a condition without a value or with an operator outside the enum
ConditionValidates(data) ==
    /\ data.value # Null
    /\ data.operator \in FilterOperator \cup {Null}

\* FilterCondition.dict(): without a dimension, neither dimension nor joinColumnName
FilterConditionDict(condition) ==
    [columnName     |-> condition.columnName,
     value          |-> condition.value,
     operator       |-> condition.operator,
     dimension      |-> condition.dimension,
     joinColumnName |-> IF condition.dimension = Null THEN Null
                        ELSE condition.joinColumnName]

\* FilterGroup(operator, value, source_type)
FilterGroup(operator, value, source_type) ==
    [operator |-> operator, value |-> value, source_type |-> source_type]

\* FilterGroup.dict(): source_type is popped
FilterGroupDict(filter_group) ==
    [operator |-> filter_group.operator,
     value    |-> [i \in 1..Len(filter_group.value) |->
                      FilterConditionDict(filter_group.value[i])]]

----------------------------------------------------------------------------
(* Storage helpers and ingestion: src/tools/filter_tools.py *)

\* the empty dictionary {}: what is stored for a request without account_summary
NoReport == <<>>

\* mutant: the tools go on without a stored report
NoAccountSummary_Never(account_summary) == FALSE

\* `if not account_summary:` on what get_stored_account_summary() returned
NoAccountSummary(account_summary) == account_summary = NoReport

\* account_summary.get("columnGroups", [])
ColumnGroupsOf(account_summary) ==
    IF account_summary = NoReport THEN <<>> ELSE account_summary.columnGroups

\* `if current_column_group_id:` is false for None and for ""
Truthy(id) == id # Null /\ id # ""

\* normalize_filter_condition: an unknown operator becomes equal
normalize_filter_condition(condition_data) ==
    [condition_data EXCEPT
        !.operator = IF @ = Null \/ @ \in FilterOperator THEN @ ELSE "equal"]

\* normalize_filter_group: source_type is popped, a missing operator becomes and
normalize_filter_group(filter_data) ==
    [operator    |-> IF filter_data.operator = Null THEN "and" ELSE filter_data.operator,
     value       |-> filter_data.value,
     source_type |-> Null]

\* mutant: one invalid condition makes the whole group invalid
RECURSIVE IngestConditions_WholeGroup(_)
IngestConditions_WholeGroup(value) ==
    IF value = <<>> THEN <<>>
    ELSE LET normalized_condition == normalize_filter_condition(Head(value))
             rest == IngestConditions_WholeGroup(Tail(value))
         IN  IF ConditionValidates(normalized_condition) /\ Len(rest) = Len(Tail(value))
             THEN <<FilterCondition(normalized_condition)>> \o rest
             ELSE <<>>

\* the conditions of one stored group that survive ingestion, in order
RECURSIVE IngestConditions(_)
IngestConditions(value) ==
    IF value = <<>> THEN <<>>
    ELSE LET normalized_condition == normalize_filter_condition(Head(value))
         IN  (IF ConditionValidates(normalized_condition)
              THEN <<FilterCondition(normalized_condition)>>
              ELSE <<>>) \o IngestConditions(Tail(value))

\* the FilterGroup objects built from a stored filters list: a group is kept
\* when it has a valid condition and its operator is a LogicalOperator
RECURSIVE IngestFilters(_)
IngestFilters(filters_data) ==
    IF filters_data = <<>> THEN <<>>
    ELSE LET filter_data == Head(filters_data)
             conditions  == IngestConditions(filter_data.value)
             normalized_filter_group == normalize_filter_group(filter_data)
             source_type == IF normalized_filter_group.source_type = Null
                            THEN "lens" ELSE normalized_filter_group.source_type
         IN  (IF conditions # <<>> /\ normalized_filter_group.operator \in LogicalOperator
              THEN <<FilterGroup(normalized_filter_group.operator, conditions, source_type)>>
              ELSE <<>>) \o IngestFilters(Tail(filters_data))

\* index of the first column group with this id, 0 when there is none
GroupIndex(account_summary, column_group_id) ==
    LET column_groups == ColumnGroupsOf(account_summary)
        hits == {i \in 1..Len(column_groups) : column_groups[i].id = column_group_id}
    IN  IF hits = {} THEN 0 ELSE CHOOSE i \in hits : \A j \in hits : i <= j

\* "Get existing filters from target columnGroup"
ExistingFilters(account_summary, column_group_id) ==
    LET i == GroupIndex(account_summary, column_group_id)
    IN  IF i = 0 THEN <<>>
        ELSE IngestFilters(account_summary.columnGroups[i].filters)

\* filter_dicts = [sanitize_response_object(filter_group.dict()) ...]
FilterDicts(updated_filters) ==
    [i \in 1..Len(updated_filters) |-> FilterGroupDict(updated_filters[i])]

\* mutant: the list is written to every column group
update_column_group_filters_EveryGroup(account_summary, column_group_id, updated_filters) ==
    [account_summary EXCEPT
        !.columnGroups = [i \in 1..Len(@) |-> [@[i] EXCEPT !.filters = updated_filters]]]

\* mutant: the list is returned to the caller and not written back
update_column_group_filters_NoWrite(account_summary, column_group_id, updated_filters) ==
    account_summary

\* update_column_group_filters: the first group with the id gets the list
update_column_group_filters(account_summary, column_group_id, updated_filters) ==
    LET i == GroupIndex(account_summary, column_group_id)
    IN  IF i = 0 THEN account_summary
        ELSE [account_summary EXCEPT !.columnGroups[i].filters = updated_filters]

\* store_account_summary: the target is preset to the first column group
StoredColumnGroupId(account_summary) ==
    IF ColumnGroupsOf(account_summary) # <<>>
    THEN account_summary.columnGroups[1].id
    ELSE Null

\* mutant: the query of the request is not stored
set_user_query_Keeps(query) == user_query

\* set_user_query: what thread_local.user_query becomes
set_user_query(query) == query

\* the available filters with this name, as a sequence in metadata order
FilterMetadata(filter_name, filters) ==
    SelectSeq(filters, LAMBDA af : af.name = filter_name)

\* create_filter_condition: the metadata's sourceType decides the shape
create_filter_condition(filter_name, filter_value, operator, filter_type, filters) ==
    LET found == FilterMetadata(filter_name, filters)
        dimensional == IF found = <<>> THEN FALSE
                       ELSE found[1].sourceType = "dimensions"
    IN  FilterCondition(
            [columnName     |-> filter_name,
             value          |-> filter_value,
             operator       |-> operator,
             dimension      |-> IF dimensional THEN found[1].sourceId ELSE Null,
             joinColumnName |-> IF dimensional THEN found[1].joinColumnName ELSE Null])

\* "if filter_name looks like a label, find the actual name"
ActualFilterName(filter_name, filters) ==
    IF Contains(filter_name, <<" ">>) \/ (filter_name # <<>> /\ IsUpper(filter_name[1]))
    THEN LET found == SelectSeq(filters, LAMBDA af : af.label = filter_name)
         IN  IF found = <<>> THEN filter_name ELSE found[1].name
    ELSE filter_name

\* the filter-type test shared by add, modify, add-or and remove
SameFilterType(condition, filter_name, filter_label) ==
    \/ SpaceToUnderscore(Lower(condition.columnName)) = Lower(filter_name)
    \/ Lower(condition.columnName) = Lower(filter_label)

----------------------------------------------------------------------------
(* Column-group resolver: src/tools/filter_tools.py *)

\* _extract_group_name: grouping[0].constant; a missing name and "" are both <<>>
extract_group_name(column_group) == column_group.name

\* mutant: the groups without a display name are listed too
GroupNames_All(column_groups) ==
    [i \in 1..Len(column_groups) |->
        [id |-> column_groups[i].id, name |-> extract_group_name(column_groups[i])]]

\* the {id, name} pairs of the groups that have a display name, in report order
GroupNames(column_groups) ==
    LET named == SelectSeq(column_groups, LAMBDA g : extract_group_name(g) # <<>>)
    IN  [i \in 1..Len(named) |-> [id |-> named[i].id, name |-> extract_group_name(named[i])]]

\* the loop returns at its first match: the first element, as a sequence of
\* length <= 1
FirstMatch(found) ==
    IF found = <<>> THEN <<>> ELSE <<found[1]>>

\* "Direct matching": the full display name occurs in the query
DirectMatch(group_info, user_query_lower) ==
    Contains(user_query_lower, Lower(group_info.name))

\* mutant: a word of any length counts
WordMatch_AnyLength(group_info, user_query_lower) ==
    LET group_words == Split(Lower(group_info.name))
    IN  \E k \in 1..Len(group_words) : Contains(user_query_lower, group_words[k])

\* "Fuzzy matching": a word of the name, longer than 2, occurs in the query
WordMatch(group_info, user_query_lower) ==
    LET group_words == Split(Lower(group_info.name))
    IN  \E k \in 1..Len(group_words) :
            Len(group_words[k]) > 2 /\ Contains(user_query_lower, group_words[k])

\* synonyms table: the name contains a key and the query one of its phrases
SynonymMatch(group_info, user_query_lower) ==
    \E k \in 1..Len(synonyms) :
        /\ Contains(Lower(group_info.name), synonyms[k].key)
        /\ \E m \in 1..Len(synonyms[k].list) :
               Contains(user_query_lower, synonyms[k].list[m])

\* mutant: one loop over the groups, trying every rule on a group before the
\* next group
identify_target_column_group_GroupByGroup(query, account_summary) ==
    LET column_groups    == ColumnGroupsOf(account_summary)
        group_names      == GroupNames(column_groups)
        user_query_lower == Lower(query)
        any == FirstMatch(SelectSeq(group_names,
                   LAMBDA g : \/ DirectMatch(g, user_query_lower)
                              \/ WordMatch(g, user_query_lower)
                              \/ SynonymMatch(g, user_query_lower)))
        Found(id) == [kind |-> "id", id |-> id, available_groups |-> <<>>]
    IN  IF Len(column_groups) = 1 THEN Found(column_groups[1].id)
        ELSE IF Len(column_groups) = 0
             THEN [kind |-> "error", id |-> Null, available_groups |-> <<>>]
        ELSE IF any # <<>> THEN Found(any[1].id)
        ELSE [kind |-> "clarification", id |-> Null, available_groups |-> group_names]

\* mutant: a single column group is matched against the query like any other
identify_target_column_group_NoShortcut(query, account_summary) ==
    LET column_groups    == ColumnGroupsOf(account_summary)
        group_names      == GroupNames(column_groups)
        user_query_lower == Lower(query)
        direct  == FirstMatch(SelectSeq(group_names, LAMBDA g : DirectMatch(g, user_query_lower)))
        word    == FirstMatch(SelectSeq(group_names, LAMBDA g : WordMatch(g, user_query_lower)))
        synonym == FirstMatch(SelectSeq(group_names, LAMBDA g : SynonymMatch(g, user_query_lower)))
        Found(id) == [kind |-> "id", id |-> id, available_groups |-> <<>>]
    IN  IF Len(column_groups) = 0
        THEN [kind |-> "error", id |-> Null, available_groups |-> <<>>]
        ELSE IF direct # <<>> THEN Found(direct[1].id)
        ELSE IF word # <<>> THEN Found(word[1].id)
        ELSE IF synonym # <<>> THEN Found(synonym[1].id)
        ELSE [kind |-> "clarification", id |-> Null, available_groups |-> group_names]

\* identify_target_column_group: an id, a clarification or the no-groups error
identify_target_column_group(query, account_summary) ==
    LET column_groups    == ColumnGroupsOf(account_summary)
        group_names      == GroupNames(column_groups)
        user_query_lower == Lower(query)
        direct  == FirstMatch(SelectSeq(group_names, LAMBDA g : DirectMatch(g, user_query_lower)))
        word    == FirstMatch(SelectSeq(group_names, LAMBDA g : WordMatch(g, user_query_lower)))
        synonym == FirstMatch(SelectSeq(group_names, LAMBDA g : SynonymMatch(g, user_query_lower)))
        Found(id) == [kind |-> "id", id |-> id, available_groups |-> <<>>]
    IN  IF Len(column_groups) = 1 THEN Found(column_groups[1].id)
        ELSE IF Len(column_groups) = 0
             THEN [kind |-> "error", id |-> Null, available_groups |-> <<>>]
        ELSE IF direct # <<>> THEN Found(direct[1].id)
        ELSE IF word # <<>> THEN Found(word[1].id)
        ELSE IF synonym # <<>> THEN Found(synonym[1].id)
        ELSE [kind |-> "clarification", id |-> Null, available_groups |-> group_names]

\* mutant: the target is resolved from the query on every call
handle_column_group_identification_Resolves(account_summary, current_id, query) ==
    LET found == identify_target_column_group(query, account_summary)
    IN  IF found.kind = "id"
        THEN [status |-> "success", column_group_id |-> found.id,
              available_groups |-> <<>>, new_current |-> found.id]
        ELSE IF found.kind = "clarification"
        THEN [status |-> "clarification_needed", column_group_id |-> Null,
              available_groups |-> found.available_groups, new_current |-> current_id]
        ELSE [status |-> "error", column_group_id |-> Null,
              available_groups |-> <<>>, new_current |-> current_id]

\* handle_column_group_identification: a target already set is used as it is
handle_column_group_identification(account_summary, current_id, query) ==
    IF Truthy(current_id)
    THEN [status |-> "success", column_group_id |-> current_id,
          available_groups |-> <<>>, new_current |-> current_id]
    ELSE LET found == identify_target_column_group(query, account_summary)
         IN  IF found.kind = "id"
             THEN [status |-> "success", column_group_id |-> found.id,
                   available_groups |-> <<>>, new_current |-> found.id]
             ELSE IF found.kind = "clarification"
             THEN [status |-> "clarification_needed", column_group_id |-> Null,
                   available_groups |-> found.available_groups, new_current |-> current_id]
             ELSE [status |-> "error", column_group_id |-> Null,
                   available_groups |-> <<>>, new_current |-> current_id]

----------------------------------------------------------------------------
(* Reconciliation engine: what each operation computes from the FilterGroup *)
(* list it ingested (existing_filters); c is the tool call's arguments      *)

\* any(SameFilterType(condition) for condition in filter_group.value)
HasFilterType(filter_group, c) ==
    \E k \in 1..Len(filter_group.value) :
        SameFilterType(filter_group.value[k], c.filter_name, c.filter_label)

\* the condition add_filter and modify_filter create for their call
NewCondition(c, filters) ==
    create_filter_condition(ActualFilterName(c.filter_name, filters),
                            c.filter_value, c.operator, c.filter_type, filters)

\* mutant: the conditions are created from the last value to the first
NewConditions_Reversed(c, filters) ==
    [k \in 1..Len(c.filter_values) |->
        create_filter_condition(ActualFilterName(c.filter_name, filters),
                                c.filter_values[Len(c.filter_values) + 1 - k],
                                c.operator, c.filter_type, filters)]

\* the conditions add_or_filter creates: one per value, in the order given
NewConditions(c, filters) ==
    [k \in 1..Len(c.filter_values) |->
        create_filter_condition(ActualFilterName(c.filter_name, filters),
                                c.filter_values[k], c.operator, c.filter_type, filters)]

\* mutant: the group that gains the condition becomes an `and` group
AddFilterUpdated_AndGroup(existing_filters, c, filters) ==
    LET Same(filter_group) == /\ HasFilterType(filter_group, c)
                              /\ filter_group.source_type = c.filter_type
        kept == [i \in 1..Len(existing_filters) |->
                    IF Same(existing_filters[i])
                    THEN FilterGroup("and",
                                     Append(existing_filters[i].value, NewCondition(c, filters)),
                                     existing_filters[i].source_type)
                    ELSE existing_filters[i]]
        filter_added == \E i \in 1..Len(existing_filters) : Same(existing_filters[i])
    IN  IF filter_added THEN kept
        ELSE Append(kept, FilterGroup("and", <<NewCondition(c, filters)>>, c.filter_type))

\* mutant: the new group is put in front of the existing groups
AddFilterUpdated_Prepend(existing_filters, c, filters) ==
    LET Same(filter_group) == /\ HasFilterType(filter_group, c)
                              /\ filter_group.source_type = c.filter_type
        kept == [i \in 1..Len(existing_filters) |->
                    IF Same(existing_filters[i])
                    THEN FilterGroup(existing_filters[i].operator,
                                     Append(existing_filters[i].value, NewCondition(c, filters)),
                                     existing_filters[i].source_type)
                    ELSE existing_filters[i]]
        filter_added == \E i \in 1..Len(existing_filters) : Same(existing_filters[i])
    IN  IF filter_added THEN kept
        ELSE <<FilterGroup("and", <<NewCondition(c, filters)>>, c.filter_type)>> \o kept

\* add_filter, lines 367-402
AddFilterUpdated(existing_filters, c, filters) ==
    LET Same(filter_group) == /\ HasFilterType(filter_group, c)
                              /\ filter_group.source_type = c.filter_type
        kept == [i \in 1..Len(existing_filters) |->
                    IF Same(existing_filters[i])
                    THEN FilterGroup(existing_filters[i].operator,
                                     Append(existing_filters[i].value, NewCondition(c, filters)),
                                     existing_filters[i].source_type)
                    ELSE existing_filters[i]]
        filter_added == \E i \in 1..Len(existing_filters) : Same(existing_filters[i])
    IN  IF filter_added THEN kept
        ELSE Append(kept, FilterGroup("and", <<NewCondition(c, filters)>>, c.filter_type))

\* mutant: the matching group is rebuilt from the new condition alone
ModifyFilterUpdated_WholeGroup(existing_filters, c, filters) ==
    LET kept == [i \in 1..Len(existing_filters) |->
                    IF HasFilterType(existing_filters[i], c)
                    THEN FilterGroup(existing_filters[i].operator,
                                     <<NewCondition(c, filters)>>,
                                     existing_filters[i].source_type)
                    ELSE existing_filters[i]]
        filter_found == \E i \in 1..Len(existing_filters) : HasFilterType(existing_filters[i], c)
    IN  IF filter_found THEN kept
        ELSE Append(kept, FilterGroup("and", <<NewCondition(c, filters)>>, c.filter_type))

\* mutant: a filter that is not found is not added
ModifyFilterUpdated_NoAppend(existing_filters, c, filters) ==
    LET Replaced(value) ==
            [k \in 1..Len(value) |->
                IF SameFilterType(value[k], c.filter_name, c.filter_label)
                THEN NewCondition(c, filters) ELSE value[k]]
    IN  [i \in 1..Len(existing_filters) |->
            IF HasFilterType(existing_filters[i], c)
            THEN FilterGroup(existing_filters[i].operator,
                             Replaced(existing_filters[i].value),
                             existing_filters[i].source_type)
            ELSE existing_filters[i]]

\* modify_filter, lines 479-521
ModifyFilterUpdated(existing_filters, c, filters) ==
    LET Replaced(value) ==
            [k \in 1..Len(value) |->
                IF SameFilterType(value[k], c.filter_name, c.filter_label)
                THEN NewCondition(c, filters) ELSE value[k]]
        kept == [i \in 1..Len(existing_filters) |->
                    IF HasFilterType(existing_filters[i], c)
                    THEN FilterGroup(existing_filters[i].operator,
                                     Replaced(existing_filters[i].value),
                                     existing_filters[i].source_type)
                    ELSE existing_filters[i]]
        filter_found == \E i \in 1..Len(existing_filters) : HasFilterType(existing_filters[i], c)
    IN  IF filter_found THEN kept
        ELSE Append(kept, FilterGroup("and", <<NewCondition(c, filters)>>, c.filter_type))

\* add_or_filter, lines 598-638
AddOrFilterUpdated(existing_filters, c, filters) ==
    LET Same(filter_group) == /\ HasFilterType(filter_group, c)
                              /\ filter_group.source_type = c.filter_type
        kept == [i \in 1..Len(existing_filters) |->
                    IF Same(existing_filters[i])
                    THEN FilterGroup("or", NewConditions(c, filters), c.filter_type)
                    ELSE existing_filters[i]]
        filter_found == \E i \in 1..Len(existing_filters) : Same(existing_filters[i])
    IN  IF filter_found THEN kept
        ELSE Append(kept, FilterGroup("or", NewConditions(c, filters), c.filter_type))

\* mutant: a group holding a matching condition is dropped whole
RemoveFilterUpdated_WholeGroup(existing_filters, c) ==
    SelectSeq(existing_filters, LAMBDA filter_group : ~HasFilterType(filter_group, c))

\* remove_filter, lines 708-724
RECURSIVE RemoveFilterUpdated(_, _)
RemoveFilterUpdated(existing_filters, c) ==
    IF existing_filters = <<>> THEN <<>>
    ELSE LET filter_group == Head(existing_filters)
             remaining_conditions ==
                 SelectSeq(filter_group.value,
                           LAMBDA condition :
                               ~SameFilterType(condition, c.filter_name, c.filter_label))
         IN  (IF remaining_conditions # <<>>
              THEN <<FilterGroup(filter_group.operator, remaining_conditions,
                                 filter_group.source_type)>>
              ELSE <<>>) \o RemoveFilterUpdated(Tail(existing_filters), c)

\* remove_multiple_filters, lines 793-812: a group goes when a name variant of one
\* of its conditions contains, or is contained in, a requested type
ShouldRemoveGroup(filter_group, filter_types) ==
    \E k \in 1..Len(filter_group.value) :
        \E t \in 1..Len(filter_types) :
            LET filter_type == SpaceToUnderscore(Lower(filter_types[t]))
                variants == {SpaceToUnderscore(Lower(filter_group.value[k].columnName)),
                             Lower(filter_group.value[k].columnName)}
            IN  \E variant \in variants :
                    Contains(variant, filter_type) \/ Contains(filter_type, variant)

\* mutant: only the matching conditions go, and the groups left empty
RemoveMultipleUpdated_ConditionsOnly(existing_filters, c) ==
    LET Kept(filter_group) ==
            SelectSeq(filter_group.value,
                      LAMBDA condition :
                          ~ShouldRemoveGroup([filter_group EXCEPT !.value = <<condition>>],
                                             c.filter_types))
        trimmed == [i \in 1..Len(existing_filters) |->
                       [existing_filters[i] EXCEPT !.value = Kept(existing_filters[i])]]
    IN  SelectSeq(trimmed, LAMBDA filter_group : filter_group.value # <<>>)

\* remove_multiple_filters, lines 790-816
RemoveMultipleUpdated(existing_filters, c) ==
    SelectSeq(existing_filters,
              LAMBDA filter_group : ~ShouldRemoveGroup(filter_group, c.filter_types))

\* remove_filter, line 659: the message names a bulk removal
IsRemoveAllMessage(message) ==
    \E k \in 1..Len(RemoveAllKeywords) : Contains(Lower(message), RemoveAllKeywords[k])

\* the tool a call ends up running: remove_filter hands over to remove_all_filters
EffectiveTool(c) ==
    IF c.tool = "remove_filter" /\ IsRemoveAllMessage(c.message)
    THEN "remove_all_filters" ELSE c.tool

\* the message a successful call returns
EffectiveMessage(c) ==
    IF c.tool = "remove_filter" /\ IsRemoveAllMessage(c.message)
    THEN RemovedAllText ELSE c.message

\* FilterOperator(operator) / FilterType(filter_type) raise ValueError on a value
\* outside the enum, where the tool evaluates them
Raises(existing_filters, c) ==
    LET tool == EffectiveTool(c)
        matched == \E i \in 1..Len(existing_filters) : HasFilterType(existing_filters[i], c)
    IN  CASE tool = "add_filter" ->
                c.operator \notin FilterOperator \/ c.filter_type \notin FilterType
          [] tool = "modify_filter" ->
                \/ c.operator \notin FilterOperator
                \/ (~matched /\ c.filter_type \notin FilterType)
          [] tool = "add_or_filter" ->
                \/ (c.filter_values # <<>> /\ c.operator \notin FilterOperator)
                \/ c.filter_type \notin FilterType
          [] OTHER -> FALSE

\* mutant: remove_all_filters writes back the list it found
Updated_RemoveAllKeeps(existing_filters, c, filters) ==
    LET tool == EffectiveTool(c)
    IN  CASE tool = "add_filter"    -> AddFilterUpdated(existing_filters, c, filters)
          [] tool = "modify_filter" -> ModifyFilterUpdated(existing_filters, c, filters)
          [] tool = "add_or_filter" -> AddOrFilterUpdated(existing_filters, c, filters)
          [] tool = "remove_filter" -> RemoveFilterUpdated(existing_filters, c)
          [] tool = "remove_multiple_filters" -> RemoveMultipleUpdated(existing_filters, c)
          [] OTHER -> existing_filters

\* updated_filters of the call
Updated(existing_filters, c, filters) ==
    LET tool == EffectiveTool(c)
    IN  CASE tool = "add_filter"    -> AddFilterUpdated(existing_filters, c, filters)
          [] tool = "modify_filter" -> ModifyFilterUpdated(existing_filters, c, filters)
          [] tool = "add_or_filter" -> AddOrFilterUpdated(existing_filters, c, filters)
          [] tool = "remove_filter" -> RemoveFilterUpdated(existing_filters, c)
          [] tool = "remove_multiple_filters" -> RemoveMultipleUpdated(existing_filters, c)
          [] OTHER -> <<>>

----------------------------------------------------------------------------
(* Response sanitation: src/tools/filter_tools.py.  An object is a tree of   *)
(* dictionaries, lists and scalars, None among them; every node is a record  *)
(* [kind, items, scalar] and an item is [key, value], with the key "" in a   *)
(* list                                                                      *)

NoneNode == [kind |-> "none", items |-> <<>>, scalar |-> ""]

Scalar(v) == [kind |-> "scalar", items |-> <<>>, scalar |-> v]

List(values) ==
    [kind |-> "list",
     items |-> [i \in 1..Len(values) |-> [key |-> "", value |-> values[i]]],
     scalar |-> ""]

Dict(entries) == [kind |-> "dict", items |-> entries, scalar |-> ""]

UNWANTED_PROPERTIES == {"source_type"}

\* mutant support: _sanitize_recursive taking only the first None out of a list
RECURSIVE sanitize_recursive_FirstNone(_)
sanitize_recursive_FirstNone(obj) ==
    IF obj.kind \in {"dict", "list"}
    THEN LET cleaned == [i \in 1..Len(obj.items) |->
                            [key   |-> obj.items[i].key,
                             value |-> sanitize_recursive_FirstNone(obj.items[i].value)]]
             nones == {i \in 1..Len(cleaned) : cleaned[i].value.kind = "none"}
             first == IF nones = {} THEN 0
                      ELSE CHOOSE i \in nones : \A j \in nones : i <= j
         IN  IF obj.kind = "dict"
             THEN [obj EXCEPT !.items =
                      SelectSeq(cleaned,
                                LAMBDA e : /\ e.key \notin UNWANTED_PROPERTIES
                                           /\ e.value.kind # "none")]
             ELSE [obj EXCEPT !.items =
                      [i \in 1..(Len(cleaned) - (IF first = 0 THEN 0 ELSE 1)) |->
                          IF first = 0 \/ i < first THEN cleaned[i] ELSE cleaned[i + 1]]]
    ELSE obj

\* _sanitize_recursive: a dictionary loses its unwanted keys and the keys whose
\* sanitized value is None, a list the items whose sanitized value is None
RECURSIVE sanitize_recursive(_)
sanitize_recursive(obj) ==
    IF obj.kind \in {"dict", "list"}
    THEN LET cleaned == [i \in 1..Len(obj.items) |->
                            [key   |-> obj.items[i].key,
                             value |-> sanitize_recursive(obj.items[i].value)]]
         IN  [obj EXCEPT !.items =
                 SelectSeq(cleaned,
                           LAMBDA e : /\ (obj.kind = "dict" => e.key \notin UNWANTED_PROPERTIES)
                                      /\ e.value.kind # "none")]
    ELSE obj

\* mutant: only the keys of the outermost dictionary are looked at
sanitize_response_object_TopLevel(data) ==
    IF data.kind = "dict"
    THEN [data EXCEPT !.items =
             SelectSeq(data.items,
                       LAMBDA e : /\ e.key \notin UNWANTED_PROPERTIES
                                  /\ e.value.kind # "none")]
    ELSE data

\* mutant: list.remove(None) in place of the filter over the items
sanitize_response_object_FirstNone(data) ==
    sanitize_recursive_FirstNone(data)

sanitize_response_object(data) ==
    sanitize_recursive(data)

----------------------------------------------------------------------------
(* Requests and tool calls the model draws from *)

\* available-filter metadata of a request
AvailableFilters ==
    << [name |-> account_type, label |-> AccountTypeLabel, sourceType |-> "lens",
        sourceId |-> "gl_lens", joinColumnName |-> Null],
       [name |-> fiscal_period, label |-> FiscalPeriodLabel, sourceType |-> "dimensions",
        sourceId |-> "period_dim", joinColumnName |-> "period_id"] >>

\* a stored condition {columnName, value, operator[, dimension, joinColumnName]}
Condition(columnName, value, operator, dimension, joinColumnName) ==
    [columnName |-> columnName, value |-> value, operator |-> operator,
     dimension |-> dimension, joinColumnName |-> joinColumnName]

AccountTypeGroup ==
    [operator |-> "and",
     value |-> <<Condition(account_type, "Accounts Payable", "equal", Null, Null)>>]

FiscalPeriodGroup ==
    [operator |-> "and",
     value |-> <<Condition(fiscal_period, "10", "equal", "period_dim", "period_id")>>]

\* one group holding conditions of two filter types (spec.md, testable properties)
MixedGroup ==
    [operator |-> "and",
     value |-> <<Condition(account_type, "Accounts Payable", "equal", Null, Null),
                 Condition(fiscal_period, "10", "equal", "period_dim", "period_id")>>]

\* a column group: id, grouping[0].constant, filters, and the fields the engine
\* never reads (lens, measureColumn, dateFilter, ...) as one value
ColumnGroup(id, name, filters) ==
    [id |-> id, name |-> name, filters |-> filters, config |-> <<"config", id>>]

\* columnOrder, formatting, rowGroups, ... : one value the engine never reads
OpaqueFields == "report-configuration"

TwoGroupReport ==
    [columnGroups |-> << ColumnGroup("cg-actuals", ActualsData, <<MixedGroup>>),
                         ColumnGroup("cg-budget", BudgetData, <<FiscalPeriodGroup>>) >>,
     opaque |-> OpaqueFields]

OneGroupReport ==
    [columnGroups |-> << ColumnGroup("cg-actuals", ActualsData, <<AccountTypeGroup>>) >>,
     opaque |-> OpaqueFields]

\* a report whose first column group carries the empty string as its id
BlankIdReport ==
    [columnGroups |-> << ColumnGroup("", ActualsData, <<AccountTypeGroup>>),
                         ColumnGroup("cg-budget", BudgetData, <<>>) >>,
     opaque |-> OpaqueFields]

Request(query, account_summary) ==
    [query |-> query, account_summary |-> account_summary,
     available_filters |-> AvailableFilters, delphi_session |-> "session-1"]

\* FilterRequest.account_summary is optional: NoReport stands for None
Requests ==
    { Request(QueryPlain, TwoGroupReport),
      Request(QueryBudget, TwoGroupReport),
      Request(QueryActuals, TwoGroupReport),
      Request(QueryPlain, OneGroupReport),
      Request(QueryPlain, BlankIdReport),
      Request(QueryBudget, BlankIdReport),
      Request(QueryPlain, NoReport) }

FilterValues == {"10", "1"}

Operators == {"equal", "notEqual"}

NoArgs ==
    [tool |-> "none", filter_name |-> <<>>, filter_label |-> <<>>, filter_value |-> Null,
     filter_values |-> <<>>, filter_type |-> Null, operator |-> Null,
     filter_types |-> <<>>, group_name |-> <<>>, message |-> <<>>,
     user_query |-> <<>>, account_summary |-> NoReport,
     request |-> [query |-> <<>>, account_summary |-> NoReport,
                  available_filters |-> <<>>, delphi_session |-> ""]]

\* FilterOperationInput for one available filter
FilterOperationInput(tool, af, filter_value, operator, message) ==
    [NoArgs EXCEPT !.tool = tool, !.filter_name = af.name, !.filter_label = af.label,
                   !.filter_value = filter_value, !.filter_type = af.sourceType,
                   !.operator = operator, !.message = message]

\* ORFilterOperationInput for one available filter
ORFilterOperationInput(af, filter_values, operator, message) ==
    [NoArgs EXCEPT !.tool = "add_or_filter", !.filter_name = af.name,
                   !.filter_label = af.label, !.filter_values = filter_values,
                   !.filter_type = af.sourceType, !.operator = operator,
                   !.message = message]

Metadata == {AvailableFilters[i] : i \in 1..Len(AvailableFilters)}

AddFilterCalls ==
    { FilterOperationInput("add_filter", af, v, op, MsgDone) :
        af \in Metadata, v \in FilterValues, op \in Operators }

ModifyFilterCalls ==
    { FilterOperationInput("modify_filter", af, v, op, MsgDone) :
        af \in Metadata, v \in FilterValues, op \in Operators }

\* the message is the intent resolver's free text for the user
RemoveFilterCalls ==
    { FilterOperationInput("remove_filter", AvailableFilters[1], "", "equal", m) :
        m \in {MsgDone, MsgRemoveAll} }
    \cup { FilterOperationInput("remove_filter", AvailableFilters[2], "", "equal", m) :
              m \in {MsgDone, MsgKeepsRest} }

AddOrFilterCalls ==
    { ORFilterOperationInput(af, vs, "equal", MsgDone) :
        af \in Metadata, vs \in {<<>>, <<"10">>, <<"10", "1">>} }

RemoveMultipleCalls ==
    { [NoArgs EXCEPT !.tool = "remove_multiple_filters", !.filter_types = ts,
                     !.message = MsgDone] :
        ts \in {<<TypeAccount, TypeFund>>, <<TypeFiscal>>} }

RemoveAllCalls ==
    { [NoArgs EXCEPT !.tool = "remove_all_filters", !.message = MsgDone] }

SelectGroupCalls ==
    { [NoArgs EXCEPT !.tool = "select_column_group", !.group_name = g,
                     !.message = MsgDone] :
        g \in {ActualsData, BudgetData, SelBudget, SelForecast} }

----------------------------------------------------------------------------
(* ConversationStore: src/utils/conversation_store.py *)

\* at most MaxAdds add_message calls per thread
MaxAdds == 2

\* max_messages_per_conversation of the store
max_messages == 2

ConversationIds == {"conv-1", "conv-2"}

\* the threads that call the global conversation_store
Callers == {"thread-1", "thread-2"}

NoMessage == [role |-> "", content |-> ""]

\* ConversationMessage(role, content, timestamp): the n-th message of a thread
ConversationMessage(thread, n) ==
    [role |-> IF n % 2 = 1 THEN "user" ELSE "assistant",
     content |-> thread \o "/" \o ToString(n)]

\* mutant: add_message does not take the lock
LockFree_NoLock(holder) == TRUE

\* `with self._lock:` may be entered
LockFree(holder) == holder = Null

\* messages[-n:]
LastN(messages, n) ==
    IF Len(messages) <= n THEN messages
    ELSE SubSeq(messages, Len(messages) - n + 1, Len(messages))

\* ConversationStore.__init__, and no add_message call under way
StoreInit ==
    /\ conversations = [id \in ConversationIds |-> <<>>]
    /\ lock = Null
    /\ adding = [thread \in Callers |->
                    [pc |-> "idle", added |-> 0, conversation_id |-> Null,
                     message |-> NoMessage, kept |-> <<>>]]
    /\ acquired = [id \in ConversationIds |-> <<>>]

----------------------------------------------------------------------------
(* The agent's result: src/agent/filter_agent.py *)

NoResponse == [type |-> "none", message |-> <<>>, account_summary |-> NoReport]

\* before the agent runs: no intermediate steps, no response
AgentInit ==
    /\ intermediate_steps = <<>>
    /\ response = NoResponse

----------------------------------------------------------------------------
(* Session State at the start of a request and the tool calls *)

NoResult == [response_type |-> "none", message |-> <<>>, available_groups |-> <<>>]

NoSummaryMessage == <<"No account summary available">>

NoGroupsMessage == <<"No column groups found in account summary">>

\* the head of the clarification text; the group names follow it, one per line
ClarificationMessage == <<"I found multiple data groups.">>

GroupNotFoundMessage == <<"Column group not found.">>

\* the stored filters of every column group, by id
FiltersById(account_summary) ==
    LET column_groups == ColumnGroupsOf(account_summary)
        ids == {column_groups[i].id : i \in 1..Len(column_groups)}
    IN  [id \in ids |-> column_groups[GroupIndex(account_summary, id)].filters]

\* initialize_filter_state followed by set_user_query (FilterAgent.process_request)
initialize_filter_state(request) ==
    LET account_summary == request.account_summary
        column_groups   == ColumnGroupsOf(account_summary)
    IN  /\ account_summary_dict = account_summary
        /\ current_column_group_id = StoredColumnGroupId(account_summary)
        /\ current_filters = IF column_groups # <<>>
                             THEN IngestFilters(column_groups[1].filters) ELSE <<>>
        /\ initial_filters = current_filters
        /\ available_filters = request.available_filters
        /\ delphi_session = request.delphi_session
        /\ user_query = request.query

Init ==
    /\ \E request \in Requests : initialize_filter_state(request)
    /\ result = NoResult
    /\ call = NoArgs
    /\ before = [account_summary_dict |-> account_summary_dict,
                 current_column_group_id |-> current_column_group_id,
                 current_filters |-> current_filters,
                 user_query |-> user_query,
                 available_filters |-> available_filters,
                 initial_filters |-> initial_filters]
    /\ composed = FiltersById(account_summary_dict)
    /\ explicit_selection = FALSE
    /\ calls = 0
    /\ response_data = NoneNode
    /\ sanitized = <<>>
    /\ thread_state = <<>>
    /\ threads = <<>>
    /\ StoreInit
    /\ AgentInit

\* the intent resolver may make another tool call: the executor stops at the
\* first tool that raises
MayCall == calls < MaxCalls /\ result.response_type # "exception"

\* bookkeeping common to every tool call
Called(c) ==
    /\ call' = c
    /\ calls' = calls + 1
    /\ before' = [account_summary_dict |-> account_summary_dict,
                  current_column_group_id |-> current_column_group_id,
                  current_filters |-> current_filters,
                  user_query |-> user_query,
                  available_filters |-> available_filters,
                  initial_filters |-> initial_filters]
    /\ UNCHANGED << user_query, available_filters, initial_filters, delphi_session,
                    response_data, sanitized, thread_state, threads,
                    store_vars, agent_vars >>

\* the body shared by the six reconciliation tools
Reconcile(c) ==
    /\ MayCall
    /\ Called(c)
    /\ UNCHANGED explicit_selection
    /\ IF NoAccountSummary(account_summary_dict)
       THEN /\ result' = [response_type |-> "error", message |-> NoSummaryMessage,
                          available_groups |-> <<>>]
            /\ UNCHANGED << account_summary_dict, current_column_group_id,
                            current_filters, composed >>
       ELSE LET column_group_result ==
                    handle_column_group_identification(account_summary_dict,
                        current_column_group_id, user_query)
                target == column_group_result.column_group_id
                existing_filters == ExistingFilters(account_summary_dict, target)
                updated_filters == Updated(existing_filters, c, available_filters)
            IN  /\ current_column_group_id' = column_group_result.new_current
                /\ IF column_group_result.status # "success"
                   THEN /\ result' =
                              [response_type |-> column_group_result.status,
                               message |-> IF column_group_result.status = "error"
                                           THEN NoGroupsMessage ELSE ClarificationMessage,
                               available_groups |-> column_group_result.available_groups]
                        /\ UNCHANGED << account_summary_dict, current_filters, composed >>
                   ELSE IF Raises(existing_filters, c)
                   THEN /\ result' = [response_type |-> "exception", message |-> <<>>,
                                      available_groups |-> <<>>]
                        /\ UNCHANGED << account_summary_dict, current_filters, composed >>
                   ELSE /\ current_filters' = updated_filters
                        /\ account_summary_dict' =
                              update_column_group_filters(account_summary_dict, target,
                                                          FilterDicts(updated_filters))
                        /\ composed' =
                              IF target \in DOMAIN composed
                              THEN [composed EXCEPT ![target] =
                                      FilterDicts(Updated(IngestFilters(@), c, available_filters))]
                              ELSE composed
                        /\ result' = [response_type |-> "success",
                                      message |-> EffectiveMessage(c),
                                      available_groups |-> <<>>]

add_filter ==
    \E c \in AddFilterCalls :
        /\ c.tool = "add_filter"
        /\ Reconcile(c)

modify_filter ==
    \E c \in ModifyFilterCalls :
        /\ c.tool = "modify_filter"
        /\ Reconcile(c)

add_or_filter ==
    \E c \in AddOrFilterCalls :
        /\ c.tool = "add_or_filter"
        /\ Reconcile(c)

remove_filter ==
    \E c \in RemoveFilterCalls :
        /\ c.tool = "remove_filter"
        /\ Reconcile(c)

remove_multiple_filters ==
    \E c \in RemoveMultipleCalls :
        /\ c.tool = "remove_multiple_filters"
        /\ Reconcile(c)

remove_all_filters ==
    \E c \in RemoveAllCalls :
        /\ c.tool = "remove_all_filters"
        /\ Reconcile(c)

\* select_column_group: exact name first, then the name as a part of a display name
SelectedGroupId(account_summary, group_name) ==
    LET column_groups == ColumnGroupsOf(account_summary)
        group_name_lower == Lower(group_name)
        exact == SelectSeq(column_groups,
                    LAMBDA g : extract_group_name(g) # <<>>
                               /\ Lower(extract_group_name(g)) = group_name_lower)
        partial == SelectSeq(column_groups,
                    LAMBDA g : extract_group_name(g) # <<>>
                               /\ Contains(Lower(extract_group_name(g)), group_name_lower))
    IN  IF exact # <<>> /\ Truthy(exact[1].id) THEN exact[1].id
        ELSE IF partial # <<>> THEN partial[1].id
        ELSE Null

select_column_group ==
    \E c \in SelectGroupCalls :
        /\ MayCall
        /\ Called(c)
        /\ UNCHANGED << account_summary_dict, current_filters, composed >>
        /\ IF NoAccountSummary(account_summary_dict)
           THEN /\ result' = [response_type |-> "error", message |-> NoSummaryMessage,
                              available_groups |-> <<>>]
                /\ UNCHANGED << current_column_group_id, explicit_selection >>
           ELSE LET selected_group_id == SelectedGroupId(account_summary_dict, c.group_name)
                IN  IF ~Truthy(selected_group_id)
                    THEN /\ result' = [response_type |-> "error",
                                       message |-> GroupNotFoundMessage,
                                       available_groups |-> <<>>]
                         /\ UNCHANGED << current_column_group_id, explicit_selection >>
                    ELSE /\ current_column_group_id' = selected_group_id
                         /\ explicit_selection' = TRUE
                         /\ result' = [response_type |-> "success", message |-> c.message,
                                       available_groups |-> <<>>]

Next ==
    \/ add_filter
    \/ modify_filter
    \/ add_or_filter
    \/ remove_filter
    \/ remove_multiple_filters
    \/ remove_all_filters
    \/ select_column_group

Spec == Init /\ [][Next]_vars

----------------------------------------------------------------------------
(* The tools on requests whose metadata declares a dimension filter without   *)
(* joinColumnName (AvailableFilter.joinColumnName is optional)                *)

UndeclaredJoinFilters ==
    [AvailableFilters EXCEPT ![2].joinColumnName = Null]

UndeclaredJoinRequests ==
    { [Request(QueryPlain, OneGroupReport) EXCEPT !.available_filters = UndeclaredJoinFilters],
      [Request(QueryBudget, TwoGroupReport) EXCEPT !.available_filters = UndeclaredJoinFilters] }

UndeclaredJoinInit ==
    /\ \E request \in UndeclaredJoinRequests : initialize_filter_state(request)
    /\ result = NoResult
    /\ call = NoArgs
    /\ before = [account_summary_dict |-> account_summary_dict,
                 current_column_group_id |-> current_column_group_id,
                 current_filters |-> current_filters,
                 user_query |-> user_query,
                 available_filters |-> available_filters,
                 initial_filters |-> initial_filters]
    /\ composed = FiltersById(account_summary_dict)
    /\ explicit_selection = FALSE
    /\ calls = 0
    /\ response_data = NoneNode
    /\ sanitized = <<>>
    /\ thread_state = <<>>
    /\ threads = <<>>
    /\ StoreInit
    /\ AgentInit

UndeclaredJoinSpec == UndeclaredJoinInit /\ [][Next]_vars

----------------------------------------------------------------------------
(* Requests whose available filters do not list the dimension filter the    *)
(* tool calls name (FilterRequest.available_filters is whatever the client  *)
(* sent; the tools' filter_name and filter_type come from the intent call)  *)

UnlistedFilters == << AvailableFilters[1] >>

UnlistedRequests ==
    { [Request(QueryPlain, OneGroupReport) EXCEPT !.available_filters = UnlistedFilters],
      [Request(QueryBudget, TwoGroupReport) EXCEPT !.available_filters = UnlistedFilters] }

UnlistedInit ==
    /\ \E request \in UnlistedRequests : initialize_filter_state(request)
    /\ result = NoResult
    /\ call = NoArgs
    /\ before = [account_summary_dict |-> account_summary_dict,
                 current_column_group_id |-> current_column_group_id,
                 current_filters |-> current_filters,
                 user_query |-> user_query,
                 available_filters |-> available_filters,
                 initial_filters |-> initial_filters]
    /\ composed = FiltersById(account_summary_dict)
    /\ explicit_selection = FALSE
    /\ calls = 0
    /\ response_data = NoneNode
    /\ sanitized = <<>>
    /\ thread_state = <<>>
    /\ threads = <<>>
    /\ StoreInit
    /\ AgentInit

UnlistedSpec == UnlistedInit /\ [][Next]_vars

----------------------------------------------------------------------------
(* Tool calls with arguments as the intent resolver may pass them: operator *)
(* and filter_type are plain strings in the tools' input schemas, and the   *)
(* report may hold a condition with an operator outside the enum            *)

UnknownOperator == "greaterThan"

UnknownFilterType == "dimension"

\* the only condition of the only column group has an operator outside the enum
UnknownOperatorReport ==
    [columnGroups |->
        << ColumnGroup("cg-actuals", ActualsData,
              << [operator |-> "and",
                  value |-> <<Condition(account_type, "Accounts Payable",
                                        UnknownOperator, Null, Null)>>] >>) >>,
     opaque |-> OpaqueFields]

UncheckedRequests ==
    { Request(QueryPlain, UnknownOperatorReport),
      Request(QueryBudget, TwoGroupReport),
      Request(QueryBudget, BlankIdReport) }

UncheckedOperators == {"equal", UnknownOperator}

UncheckedCalls ==
    { [FilterOperationInput(tool, af, "1", op, MsgDone) EXCEPT !.filter_type = ft] :
        tool \in {"add_filter", "modify_filter"}, af \in Metadata,
        op \in UncheckedOperators, ft \in FilterType \cup {UnknownFilterType} }
    \cup
    { [ORFilterOperationInput(af, vs, op, MsgDone) EXCEPT !.filter_type = ft] :
        af \in Metadata, vs \in {<<>>, <<"10", "1">>},
        op \in UncheckedOperators, ft \in {"lens", UnknownFilterType} }

UncheckedInit ==
    /\ \E request \in UncheckedRequests : initialize_filter_state(request)
    /\ result = NoResult
    /\ call = NoArgs
    /\ before = [account_summary_dict |-> account_summary_dict,
                 current_column_group_id |-> current_column_group_id,
                 current_filters |-> current_filters,
                 user_query |-> user_query,
                 available_filters |-> available_filters,
                 initial_filters |-> initial_filters]
    /\ composed = FiltersById(account_summary_dict)
    /\ explicit_selection = FALSE
    /\ calls = 0
    /\ response_data = NoneNode
    /\ sanitized = <<>>
    /\ thread_state = <<>>
    /\ threads = <<>>
    /\ StoreInit
    /\ AgentInit

add_filter_unchecked ==
    \E c \in UncheckedCalls :
        /\ c.tool = "add_filter"
        /\ Reconcile(c)

modify_filter_unchecked ==
    \E c \in UncheckedCalls :
        /\ c.tool = "modify_filter"
        /\ Reconcile(c)

add_or_filter_unchecked ==
    \E c \in UncheckedCalls :
        /\ c.tool = "add_or_filter"
        /\ Reconcile(c)

UncheckedNext ==
    \/ add_filter_unchecked
    \/ modify_filter_unchecked
    \/ add_or_filter_unchecked

UncheckedSpec == UncheckedInit /\ [][UncheckedNext]_vars

----------------------------------------------------------------------------
(* Reports whose stored filters hold malformed conditions: a condition *)
(* without a value fails the FilterCondition validation and is skipped *)
(* by the ingestion of every tool                                      *)

\* a stored condition without the required `value`
MalformedCondition(columnName) ==
    Condition(columnName, Null, "equal", Null, Null)

\* an `or` group with a malformed condition between two valid ones, a group
\* of one malformed condition, and a valid group
MalformedReport ==
    [columnGroups |->
        << ColumnGroup("cg-actuals", ActualsData,
              << [operator |-> "or",
                  value |-> << Condition(account_type, "Accounts Payable", "equal", Null, Null),
                               MalformedCondition(account_type),
                               Condition(account_type, "Revenue", "notEqual", Null, Null) >>],
                 [operator |-> "and",
                  value |-> << MalformedCondition(fiscal_period) >>],
                 AccountTypeGroup >>) >>,
     opaque |-> OpaqueFields]

\* the malformed condition is in the second column group
MalformedSecondReport ==
    [columnGroups |->
        << ColumnGroup("cg-actuals", ActualsData, <<FiscalPeriodGroup>>),
           ColumnGroup("cg-budget", BudgetData,
              << [operator |-> "and",
                  value |-> << MalformedCondition(fiscal_period),
                               Condition(fiscal_period, "10", "equal",
                                         "period_dim", "period_id") >>] >>) >>,
     opaque |-> OpaqueFields]

MalformedRequests ==
    { Request(QueryPlain, MalformedReport),
      Request(QueryBudget, MalformedSecondReport) }

MalformedInit ==
    /\ \E request \in MalformedRequests : initialize_filter_state(request)
    /\ result = NoResult
    /\ call = NoArgs
    /\ before = [account_summary_dict |-> account_summary_dict,
                 current_column_group_id |-> current_column_group_id,
                 current_filters |-> current_filters,
                 user_query |-> user_query,
                 available_filters |-> available_filters,
                 initial_filters |-> initial_filters]
    /\ composed = FiltersById(account_summary_dict)
    /\ explicit_selection = FALSE
    /\ calls = 0
    /\ response_data = NoneNode
    /\ sanitized = <<>>
    /\ thread_state = <<>>
    /\ threads = <<>>
    /\ StoreInit
    /\ AgentInit

MalformedSpec == MalformedInit /\ [][Next]_vars

----------------------------------------------------------------------------
(* One worker thread processing requests one after the other: the thread's   *)
(* Session State outlives a request, and process_request begins the next one *)

WorkerRequests ==
    { Request(QueryBudget, TwoGroupReport),
      [Request(QueryActuals, OneGroupReport) EXCEPT !.delphi_session = "session-2"],
      [Request(QueryPlain, NoReport) EXCEPT !.delphi_session = "session-2",
                                            !.available_filters = UndeclaredJoinFilters] }

WorkerInit ==
    /\ \E request \in WorkerRequests : initialize_filter_state(request)
    /\ result = NoResult
    /\ call = NoArgs
    /\ before = [account_summary_dict |-> account_summary_dict,
                 current_column_group_id |-> current_column_group_id,
                 current_filters |-> current_filters,
                 user_query |-> user_query,
                 available_filters |-> available_filters,
                 initial_filters |-> initial_filters]
    /\ composed = FiltersById(account_summary_dict)
    /\ explicit_selection = FALSE
    /\ calls = 0
    /\ response_data = NoneNode
    /\ sanitized = <<>>
    /\ thread_state = <<>>
    /\ threads = <<>>
    /\ StoreInit
    /\ AgentInit

\* FilterAgent.process_request up to the agent's first step, on a thread that
\* has processed a request before: initialize_filter_state, then set_user_query.
\* The step counts against MaxCalls, which bounds the steps of the worker.
process_request ==
    \E request \in WorkerRequests :
        LET account_summary == request.account_summary
            column_groups   == ColumnGroupsOf(account_summary)
            filter_groups   == IF column_groups # <<>>
                               THEN IngestFilters(column_groups[1].filters) ELSE <<>>
        IN  /\ calls < MaxCalls
            /\ account_summary_dict' = account_summary
            /\ current_column_group_id' = StoredColumnGroupId(account_summary)
            /\ current_filters' = filter_groups
            /\ initial_filters' = filter_groups
            /\ delphi_session' = request.delphi_session
            /\ available_filters' = request.available_filters
            /\ user_query' = set_user_query(request.query)
            /\ call' = [NoArgs EXCEPT !.tool = "process_request", !.request = request]
            /\ calls' = calls + 1
            /\ before' = [account_summary_dict |-> account_summary_dict,
                          current_column_group_id |-> current_column_group_id,
                          current_filters |-> current_filters,
                          user_query |-> user_query,
                          available_filters |-> available_filters,
                          initial_filters |-> initial_filters]
            /\ result' = NoResult
            /\ composed' = FiltersById(account_summary)
            /\ explicit_selection' = FALSE
            /\ UNCHANGED << response_data, sanitized, thread_state, threads,
                    store_vars, agent_vars >>

WorkerNext ==
    \/ process_request
    \/ Next

WorkerSpec == WorkerInit /\ [][WorkerNext]_vars

----------------------------------------------------------------------------
(* Two requests processed at the same time, each on a thread of its own: the  *)
(* tools of a request run on the thread of its process_request call           *)
(* (AgentExecutor.invoke), and every Session State access goes through the    *)
(* module's threading.local() object                                          *)

Threads == {"thread-1", "thread-2"}

\* mutant: a module-level object shared by all threads
thread_local_Shared(thread) == "thread-1"

\* threading.local(): the attribute namespace a thread reads and writes
thread_local(thread) == thread

\* the getattr defaults a thread sees before it has stored anything
NoAttributes ==
    [account_summary_dict |-> NoReport, current_column_group_id |-> Null,
     user_query |-> <<>>, available_filters |-> <<>>, current_filters |-> <<>>]

\* Session State after initialize_filter_state and set_user_query
InitialSession(request) ==
    LET column_groups == ColumnGroupsOf(request.account_summary)
    IN  [account_summary_dict    |-> request.account_summary,
         current_column_group_id |-> StoredColumnGroupId(request.account_summary),
         user_query              |-> request.query,
         available_filters       |-> request.available_filters,
         current_filters         |-> IF column_groups # <<>>
                                     THEN IngestFilters(column_groups[1].filters)
                                     ELSE <<>>]

\* Session State after one tool call made on it
SessionAfter(session, c) ==
    IF NoAccountSummary(session.account_summary_dict) THEN session
    ELSE IF c.tool = "select_column_group"
    THEN LET selected_group_id == SelectedGroupId(session.account_summary_dict, c.group_name)
         IN  IF ~Truthy(selected_group_id) THEN session
             ELSE [session EXCEPT !.current_column_group_id = selected_group_id]
    ELSE LET column_group_result ==
                 handle_column_group_identification(session.account_summary_dict,
                     session.current_column_group_id, session.user_query)
             target == column_group_result.column_group_id
             existing_filters == ExistingFilters(session.account_summary_dict, target)
             updated_filters == Updated(existing_filters, c, session.available_filters)
             identified == [session EXCEPT
                               !.current_column_group_id = column_group_result.new_current]
         IN  IF column_group_result.status # "success" \/ Raises(existing_filters, c)
             THEN identified
             ELSE [identified EXCEPT
                      !.current_filters = updated_filters,
                      !.account_summary_dict =
                          update_column_group_filters(session.account_summary_dict, target,
                                                      FilterDicts(updated_filters))]

ConcurrentRequests ==
    { Request(QueryBudget, TwoGroupReport),
      [Request(QueryActuals, OneGroupReport) EXCEPT !.delphi_session = "session-2"] }

ConcurrentCalls ==
    { FilterOperationInput("add_filter", AvailableFilters[2], "10", "equal", MsgDone),
      FilterOperationInput("remove_filter", AvailableFilters[1], "", "equal", MsgDone),
      [NoArgs EXCEPT !.tool = "remove_all_filters", !.message = MsgDone],
      [NoArgs EXCEPT !.tool = "select_column_group", !.group_name = BudgetData,
                     !.message = MsgDone] }

ConcurrentInit ==
    /\ initialize_filter_state(Request(QueryPlain, NoReport))
    /\ result = NoResult
    /\ call = NoArgs
    /\ before = [account_summary_dict |-> account_summary_dict,
                 current_column_group_id |-> current_column_group_id,
                 current_filters |-> current_filters,
                 user_query |-> user_query,
                 available_filters |-> available_filters,
                 initial_filters |-> initial_filters]
    /\ composed = FiltersById(account_summary_dict)
    /\ explicit_selection = FALSE
    /\ calls = 0
    /\ response_data = NoneNode
    /\ sanitized = <<>>
    /\ thread_state = [thread \in Threads |-> NoAttributes]
    /\ threads = [thread \in Threads |->
                     [started |-> FALSE, calls |-> 0, alone |-> NoAttributes]]
    /\ StoreInit
    /\ AgentInit

\* a thread takes a request: process_request up to the agent's first step
thread_begins ==
    \E thread \in Threads, request \in ConcurrentRequests :
        /\ ~threads[thread].started
        /\ thread_state' = [thread_state EXCEPT
                               ![thread_local(thread)] = InitialSession(request)]
        /\ threads' = [threads EXCEPT ![thread] =
                          [started |-> TRUE, calls |-> 0,
                           alone |-> InitialSession(request)]]
        /\ UNCHANGED << account_summary_dict, current_column_group_id, user_query,
                        available_filters, current_filters, initial_filters,
                        delphi_session, result, call, before, composed,
                        explicit_selection, calls, response_data, sanitized,
                        store_vars, agent_vars >>

\* the agent of a thread's request makes one tool call
thread_calls ==
    \E thread \in Threads, c \in ConcurrentCalls :
        /\ threads[thread].started
        /\ threads[thread].calls < MaxCalls
        /\ thread_state' = [thread_state EXCEPT
                               ![thread_local(thread)] = SessionAfter(@, c)]
        /\ threads' = [threads EXCEPT
                          ![thread].calls = @ + 1,
                          ![thread].alone = SessionAfter(@, c)]
        /\ UNCHANGED << account_summary_dict, current_column_group_id, user_query,
                        available_filters, current_filters, initial_filters,
                        delphi_session, result, call, before, composed,
                        explicit_selection, calls, response_data, sanitized,
                        store_vars, agent_vars >>

ConcurrentNext ==
    \/ thread_begins
    \/ thread_calls

ConcurrentSpec == ConcurrentInit /\ [][ConcurrentNext]_vars

----------------------------------------------------------------------------
(* The filter-type test on its own: the any(...) over the conditions of one   *)
(* ingested group that add_filter, modify_filter, add_or_filter and           *)
(* remove_filter evaluate with the call's filter_name and filter_label        *)

\* column identifiers of a stored condition
StoredColumnNames ==
    {fiscal_period, FiscalPeriodLabel, TypeFiscal, account_type, AccountTypeLabel}

\* what the intent resolver passes as filter_name: a name, or a label
RequestedNames == {fiscal_period, FiscalPeriodLabel, account_type, AccountTypeLabel}

RequestedLabels == {FiscalPeriodLabel, TypeFiscal, AccountTypeLabel}

FilterTypeInit ==
    /\ account_summary_dict = NoReport
    /\ current_column_group_id = Null
    /\ user_query = <<>>
    /\ available_filters = AvailableFilters
    /\ delphi_session = "session-1"
    /\ \E columnName \in StoredColumnNames :
           current_filters =
               << FilterGroup("and", <<Condition(columnName, "10", "equal", Null, Null)>>,
                              "lens") >>
    /\ initial_filters = current_filters
    /\ result = NoResult
    /\ \E filter_name \in RequestedNames, filter_label \in RequestedLabels :
           call = [NoArgs EXCEPT !.tool = "add_filter", !.filter_name = filter_name,
                                 !.filter_label = filter_label, !.filter_value = "1",
                                 !.filter_type = "lens", !.operator = "equal",
                                 !.message = MsgDone]
    /\ before = [account_summary_dict |-> account_summary_dict,
                 current_column_group_id |-> current_column_group_id,
                 current_filters |-> current_filters,
                 user_query |-> user_query,
                 available_filters |-> available_filters,
                 initial_filters |-> initial_filters]
    /\ composed = <<>>
    /\ explicit_selection = FALSE
    /\ calls = 0
    /\ response_data = NoneNode
    /\ sanitized = <<>>
    /\ thread_state = <<>>
    /\ threads = <<>>
    /\ StoreInit
    /\ AgentInit

\* has_same_filter_type / contains_target / contains_same_filter is evaluated
has_same_filter_type ==
    /\ result = NoResult
    /\ result' = [NoResult EXCEPT
                     !.response_type = IF HasFilterType(current_filters[1], call)
                                       THEN "same_filter_type" ELSE "other_filter_type"]
    /\ UNCHANGED << account_summary_dict, current_column_group_id, user_query,
                    available_filters, current_filters, initial_filters,
                    delphi_session, call, before, composed, explicit_selection,
                    calls, response_data, sanitized, thread_state, threads,
                    store_vars, agent_vars >>

FilterTypeNext == has_same_filter_type

FilterTypeSpec == FilterTypeInit /\ [][FilterTypeNext]_vars

----------------------------------------------------------------------------
(* The column-group resolver on its own: the identify_column_group tool applied *)
(* to reports of up to MaxGroups column groups                                   *)

\* display names of the column groups; <<>> is a group without grouping[0].constant
ResolverNames == {ActualsData, BudgetData, SelForecast, <<>>}

ResolverQueries ==
    {QueryPlain, QueryActuals, QueryBudget, QueryProjected, QueryForecastData}

\* a report whose i-th column group is named names[i] and has the id cg-i
ResolverReport(names) ==
    [columnGroups |-> [i \in 1..Len(names) |->
                          ColumnGroup("cg-" \o ToString(i), names[i], <<>>)],
     opaque |-> OpaqueFields]

ResolverRequests ==
    { Request(query, ResolverReport(names)) :
        query \in ResolverQueries,
        names \in UNION {[1..n -> ResolverNames] : n \in 0..MaxGroups} }

ResolverInit ==
    /\ \E request \in ResolverRequests : initialize_filter_state(request)
    /\ result = NoResult
    /\ call = NoArgs
    /\ before = [account_summary_dict |-> account_summary_dict,
                 current_column_group_id |-> current_column_group_id,
                 current_filters |-> current_filters,
                 user_query |-> user_query,
                 available_filters |-> available_filters,
                 initial_filters |-> initial_filters]
    /\ composed = FiltersById(account_summary_dict)
    /\ explicit_selection = FALSE
    /\ calls = 0
    /\ response_data = NoneNode
    /\ sanitized = <<>>
    /\ thread_state = <<>>
    /\ threads = <<>>
    /\ StoreInit
    /\ AgentInit

IdentifiedMessage == <<"Identified column group">>

\* identify_column_group(user_query, account_summary, clarification_message) for
\* the arguments c: the groups searched are those of the argument
IdentifyColumnGroup(c) ==
    LET found == identify_target_column_group(c.user_query, c.account_summary)
    IN  /\ MayCall
        /\ Called(c)
        /\ UNCHANGED << account_summary_dict, current_filters, composed,
                        explicit_selection >>
        /\ IF found.kind = "id"
           THEN /\ current_column_group_id' = found.id
                /\ result' = [response_type |-> "success", message |-> IdentifiedMessage,
                              available_groups |-> <<>>]
           ELSE IF found.kind = "clarification"
           THEN /\ result' = [response_type |-> "clarification_needed",
                              message |-> c.message,
                              available_groups |-> found.available_groups]
                /\ UNCHANGED current_column_group_id
           ELSE /\ result' = [response_type |-> "error", message |-> NoGroupsMessage,
                              available_groups |-> <<>>]
                /\ UNCHANGED current_column_group_id

\* the intent resolver passes the request's query and report
identify_column_group ==
    IdentifyColumnGroup([NoArgs EXCEPT !.tool = "identify_column_group",
                                       !.user_query = user_query,
                                       !.account_summary = account_summary_dict,
                                       !.message = MsgDone])

ResolverNext == identify_column_group

ResolverSpec == ResolverInit /\ [][ResolverNext]_vars

----------------------------------------------------------------------------
(* The resolver on display names with a two-letter word: "By Fund" next to *)
(* "Budget Data" and a group without a display name                         *)

TokenNames == {BudgetData, ByFund, <<>>}

TokenQueries == {QueryPlain, QueryBudget, QueryActuals}

TokenRequests ==
    { Request(query, ResolverReport(names)) :
        query \in TokenQueries,
        names \in UNION {[1..n -> TokenNames] : n \in 0..MaxGroups} }

TokenInit ==
    /\ \E request \in TokenRequests : initialize_filter_state(request)
    /\ result = NoResult
    /\ call = NoArgs
    /\ before = [account_summary_dict |-> account_summary_dict,
                 current_column_group_id |-> current_column_group_id,
                 current_filters |-> current_filters,
                 user_query |-> user_query,
                 available_filters |-> available_filters,
                 initial_filters |-> initial_filters]
    /\ composed = FiltersById(account_summary_dict)
    /\ explicit_selection = FALSE
    /\ calls = 0
    /\ response_data = NoneNode
    /\ sanitized = <<>>
    /\ thread_state = <<>>
    /\ threads = <<>>
    /\ StoreInit
    /\ AgentInit

TokenSpec == TokenInit /\ [][ResolverNext]_vars

----------------------------------------------------------------------------
(* sanitize_response_object on its own: a response object is sanitized, and   *)
(* what comes out is sanitized again (the tools sanitize the filter groups    *)
(* they store, the API layer the whole response)                              *)

Leaves == {NoneNode, Scalar("x")}

DictKeys == <<"a", "source_type">>

\* the key is not in the dictionary
Absent == [kind |-> "absent", items |-> <<>>, scalar |-> ""]

\* the lists of up to MaxItems of the children
ListsOver(children) ==
    { List(values) : values \in UNION {[1..n -> children] : n \in 0..MaxItems} }

\* the dictionaries with some of DictKeys, each with a child as its value
DictsOver(children) ==
    { Dict(SelectSeq([i \in 1..Len(DictKeys) |-> [key |-> DictKeys[i], value |-> f[i]]],
                     LAMBDA e : e.value # Absent)) :
        f \in [1..Len(DictKeys) -> children \cup {Absent}] }

Level1 == ListsOver(Leaves) \cup DictsOver(Leaves)

\* the lists of one or two of the children
ShortListsOver(children) ==
    {List(<<>>)} \cup {List(<<t>>) : t \in children}
                \cup {List(<<t, u>>) : t \in children, u \in children}

Level2 == ShortListsOver(Leaves \cup Level1) \cup DictsOver(Leaves \cup Level1)

\* a tree of the levels above as the only value of a dictionary or of a list
Level3 ==
    {Dict(<<[key |-> "a", value |-> t]>>) : t \in Level2}
        \cup {List(<<t>>) : t \in Level2}

ResponseObjects == Leaves \cup Level1 \cup Level2 \cup Level3

SanitizeInit ==
    /\ initialize_filter_state(Request(QueryPlain, NoReport))
    /\ result = NoResult
    /\ call = NoArgs
    /\ before = [account_summary_dict |-> account_summary_dict,
                 current_column_group_id |-> current_column_group_id,
                 current_filters |-> current_filters,
                 user_query |-> user_query,
                 available_filters |-> available_filters,
                 initial_filters |-> initial_filters]
    /\ composed = FiltersById(account_summary_dict)
    /\ explicit_selection = FALSE
    /\ calls = 0
    /\ response_data \in ResponseObjects
    /\ sanitized = <<>>
    /\ thread_state = <<>>
    /\ threads = <<>>
    /\ StoreInit
    /\ AgentInit

\* one pass: the object, or what the pass before returned, is sanitized
sanitize ==
    /\ Len(sanitized) < MaxPasses
    /\ sanitized' = Append(sanitized,
                        sanitize_response_object(
                            IF sanitized = <<>> THEN response_data
                            ELSE sanitized[Len(sanitized)]))
    /\ UNCHANGED << account_summary_dict, current_column_group_id, user_query,
                    available_filters, current_filters, initial_filters,
                    delphi_session, result, call, before, composed,
                    explicit_selection, calls, response_data, thread_state, threads,
                    store_vars, agent_vars >>

SanitizeNext == sanitize

SanitizeSpec == SanitizeInit /\ [][SanitizeNext]_vars

----------------------------------------------------------------------------
(* Threads adding messages to the global conversation_store: add_message, *)
(* statement by statement                                                 *)

StoreSpecInit ==
    /\ initialize_filter_state(Request(QueryPlain, NoReport))
    /\ result = NoResult
    /\ call = NoArgs
    /\ before = [account_summary_dict |-> account_summary_dict,
                 current_column_group_id |-> current_column_group_id,
                 current_filters |-> current_filters,
                 user_query |-> user_query,
                 available_filters |-> available_filters,
                 initial_filters |-> initial_filters]
    /\ composed = FiltersById(account_summary_dict)
    /\ explicit_selection = FALSE
    /\ calls = 0
    /\ response_data = NoneNode
    /\ sanitized = <<>>
    /\ thread_state = <<>>
    /\ threads = <<>>
    /\ StoreInit
    /\ AgentInit

\* what the steps of add_message leave alone
SessionUnchanged ==
    UNCHANGED << account_summary_dict, current_column_group_id, user_query,
                 available_filters, current_filters, initial_filters,
                 delphi_session, result, call, before, composed,
                 explicit_selection, calls, response_data, sanitized,
                 thread_state, threads, agent_vars >>

\* line 20: `with self._lock:` is entered; the message of lines 24-28 is the
\* thread's next one
add_message_enter ==
    \E thread \in Callers, conversation_id \in ConversationIds :
        LET message == ConversationMessage(thread, adding[thread].added + 1)
        IN  /\ adding[thread].pc = "idle"
            /\ adding[thread].added < MaxAdds
            /\ LockFree(lock)
            /\ lock' = thread
            /\ adding' = [adding EXCEPT ![thread].pc = "append",
                                        ![thread].conversation_id = conversation_id,
                                        ![thread].message = message]
            /\ acquired' = [acquired EXCEPT ![conversation_id] = Append(@, message)]
            /\ UNCHANGED conversations
            /\ SessionUnchanged

\* lines 21-30: the list is created when absent, and the message appended
add_message_append ==
    \E thread \in Callers :
        /\ adding[thread].pc = "append"
        /\ conversations' = [conversations EXCEPT ![adding[thread].conversation_id] =
                                Append(@, adding[thread].message)]
        /\ adding' = [adding EXCEPT ![thread].pc = "trim"]
        /\ UNCHANGED << lock, acquired >>
        /\ SessionUnchanged

\* lines 34-35, right-hand side: the length test and the slice [-max_messages:]
add_message_slice ==
    \E thread \in Callers :
        LET messages == conversations[adding[thread].conversation_id]
        IN  /\ adding[thread].pc = "trim"
            /\ adding' = [adding EXCEPT
                   ![thread].pc = IF Len(messages) > max_messages THEN "assign" ELSE "exit",
                   ![thread].kept = IF Len(messages) > max_messages
                                    THEN LastN(messages, max_messages) ELSE <<>>]
            /\ UNCHANGED << conversations, lock, acquired >>
            /\ SessionUnchanged

\* line 35, assignment: the slice replaces the list
add_message_assign ==
    \E thread \in Callers :
        /\ adding[thread].pc = "assign"
        /\ conversations' = [conversations EXCEPT ![adding[thread].conversation_id] =
                                adding[thread].kept]
        /\ adding' = [adding EXCEPT ![thread].pc = "exit", ![thread].kept = <<>>]
        /\ UNCHANGED << lock, acquired >>
        /\ SessionUnchanged

\* the end of the `with` block: the lock is released
add_message_exit ==
    \E thread \in Callers :
        /\ adding[thread].pc = "exit"
        /\ lock' = Null
        /\ adding' = [adding EXCEPT ![thread].pc = "idle",
                                    ![thread].added = @ + 1,
                                    ![thread].conversation_id = Null,
                                    ![thread].message = NoMessage]
        /\ UNCHANGED << conversations, acquired >>
        /\ SessionUnchanged

StoreNext ==
    \/ add_message_enter
    \/ add_message_append
    \/ add_message_slice
    \/ add_message_assign
    \/ add_message_exit

StoreSpec == StoreSpecInit /\ [][StoreNext]_vars

----------------------------------------------------------------------------
(* identify_column_group with the account_summary the intent resolver hands *)
(* over: the argument is the tool's own input (ColumnGroupIdentificationInput) *)
(* and need not be the stored report                                           *)

\* the reports handed over: the stored one, and reports with other group ids
GivenReports ==
    { account_summary_dict,
      ResolverReport(<<ActualsData, BudgetData>>),
      ResolverReport(<<BudgetData>>) }

GivenReportRequests ==
    { Request(QueryBudget, TwoGroupReport),
      Request(QueryPlain, OneGroupReport) }

GivenReportInit ==
    /\ \E request \in GivenReportRequests : initialize_filter_state(request)
    /\ result = NoResult
    /\ call = NoArgs
    /\ before = [account_summary_dict |-> account_summary_dict,
                 current_column_group_id |-> current_column_group_id,
                 current_filters |-> current_filters,
                 user_query |-> user_query,
                 available_filters |-> available_filters,
                 initial_filters |-> initial_filters]
    /\ composed = FiltersById(account_summary_dict)
    /\ explicit_selection = FALSE
    /\ calls = 0
    /\ response_data = NoneNode
    /\ sanitized = <<>>
    /\ thread_state = <<>>
    /\ threads = <<>>
    /\ StoreInit
    /\ AgentInit

identify_column_group_given ==
    \E account_summary \in GivenReports :
        IdentifyColumnGroup([NoArgs EXCEPT !.tool = "identify_column_group",
                                           !.user_query = user_query,
                                           !.account_summary = account_summary,
                                           !.message = MsgDone])

GivenReportNext == identify_column_group_given \/ Next

GivenReportSpec == GivenReportInit /\ [][GivenReportNext]_vars

----------------------------------------------------------------------------
(* Reports in which several filter groups of a column group hold conditions *)
(* of the same filter type (ColumnGroup.filters is a free list of groups)    *)

RevenueGroup ==
    [operator |-> "or",
     value |-> <<Condition(account_type, "Revenue", "equal", Null, Null)>>]

SeveralGroupsReport ==
    [columnGroups |->
        << ColumnGroup("cg-actuals", ActualsData,
                       <<AccountTypeGroup, FiscalPeriodGroup, RevenueGroup>>) >>,
     opaque |-> OpaqueFields]

SeveralGroupsRequests ==
    { Request(QueryPlain, SeveralGroupsReport),
      Request(QueryPlain, OneGroupReport) }

SeveralGroupsInit ==
    /\ \E request \in SeveralGroupsRequests : initialize_filter_state(request)
    /\ result = NoResult
    /\ call = NoArgs
    /\ before = [account_summary_dict |-> account_summary_dict,
                 current_column_group_id |-> current_column_group_id,
                 current_filters |-> current_filters,
                 user_query |-> user_query,
                 available_filters |-> available_filters,
                 initial_filters |-> initial_filters]
    /\ composed = FiltersById(account_summary_dict)
    /\ explicit_selection = FALSE
    /\ calls = 0
    /\ response_data = NoneNode
    /\ sanitized = <<>>
    /\ thread_state = <<>>
    /\ threads = <<>>
    /\ StoreInit
    /\ AgentInit

SeveralGroupsSpec == SeveralGroupsInit /\ [][Next]_vars

----------------------------------------------------------------------------
(* One request from the first tool call to the response: the agent's tool *)
(* calls, what AgentExecutor records of them, and _process_agent_result   *)

MsgSelected == <<"Column group selected.">>

AgentOutput == <<"I couldn't process your filter request.">>

UnknownErrorMessage == <<"Unknown error occurred">>

\* the minimal account_summary of _convert_tool_result_to_response
DemoReport ==
    [columnGroups |-> << ColumnGroup("default_column_group", <<>>, <<>>) >>,
     opaque |-> OpaqueFields]

\* what a tool call returned. response_type is Null for an observation that is
\* not a dict with "response_type" (get_filter_values returns a list).
\* account_summary tells what the dict holds under that key: "stored" for the
\* object get_stored_account_summary() returns, "empty" for {}, "absent" for no
\* such key; `returned` is the stored report as it was when the tool returned
Observation(response_type, message, available_groups, account_summary, returned) ==
    [response_type |-> response_type, message |-> message,
     available_groups |-> available_groups, account_summary |-> account_summary,
     returned |-> returned]

\* the Session State held in thread-local storage, as one record
CurrentSession ==
    [account_summary_dict    |-> account_summary_dict,
     current_column_group_id |-> current_column_group_id,
     user_query              |-> user_query,
     available_filters       |-> available_filters,
     current_filters         |-> current_filters]

\* Session State after one tool call of the chain
ChainSessionAfter(session, c) ==
    IF c.tool = "get_filter_values" THEN session
    ELSE IF c.tool = "identify_column_group"
    THEN LET found == identify_target_column_group(c.user_query, c.account_summary)
         IN  IF found.kind = "id"
             THEN [session EXCEPT !.current_column_group_id = found.id]
             ELSE session
    ELSE SessionAfter(session, c)

\* the observation of the tool call c made on `session`; `returned` is the
\* stored report once the call has run
ToolResult(session, c, returned) ==
    LET stored == session.account_summary_dict
    IN  IF c.tool = "get_filter_values"
        THEN Observation(Null, <<>>, <<>>, "absent", returned)
        ELSE IF c.tool = "identify_column_group"
        THEN LET found == identify_target_column_group(c.user_query, c.account_summary)
             IN  IF found.kind = "id"
                 THEN Observation("success", IdentifiedMessage, <<>>, "absent", returned)
                 ELSE IF found.kind = "clarification"
                 THEN Observation("clarification_needed", c.message,
                                  found.available_groups, "absent", returned)
                 ELSE Observation("error", NoGroupsMessage, <<>>, "absent", returned)
        ELSE IF NoAccountSummary(stored)
        THEN Observation("error", NoSummaryMessage, <<>>, "empty", returned)
        ELSE IF c.tool = "select_column_group"
        THEN IF ~Truthy(SelectedGroupId(stored, c.group_name))
             THEN Observation("error", GroupNotFoundMessage, <<>>, "stored", returned)
             ELSE Observation("success", c.message, <<>>, "stored", returned)
        ELSE LET column_group_result ==
                     handle_column_group_identification(stored,
                         session.current_column_group_id, session.user_query)
             IN  IF column_group_result.status = "success"
                 THEN Observation("success", EffectiveMessage(c), <<>>, "stored", returned)
                 ELSE Observation(column_group_result.status,
                                  IF column_group_result.status = "error"
                                  THEN NoGroupsMessage ELSE ClarificationMessage,
                                  column_group_result.available_groups, "stored", returned)

\* mutant: the observation holds a copy of the report made when the tool returned
convert_tool_result_to_response_Copy(tool_result, stored) ==
    IF tool_result.response_type = "clarification_needed"
    THEN [type |-> "clarification_needed", message |-> tool_result.message,
          account_summary |-> NoReport]
    ELSE IF tool_result.response_type = "success"
    THEN [type |-> "success", message |-> tool_result.message,
          account_summary |-> IF tool_result.account_summary = "stored"
                              THEN tool_result.returned
                              ELSE IF stored # NoReport THEN stored ELSE DemoReport]
    ELSE [type |-> "error",
          message |-> IF tool_result.message = <<>> THEN UnknownErrorMessage
                      ELSE tool_result.message,
          account_summary |-> NoReport]

\* _convert_tool_result_to_response; `stored` is the stored report when the
\* response is built: the dict under "account_summary" is that same object
convert_tool_result_to_response(tool_result, stored) ==
    LET account_summary_data ==
            IF tool_result.account_summary = "stored" THEN stored ELSE NoReport
        final_account_summary_dict == stored
    IN  IF tool_result.response_type = "clarification_needed"
        THEN [type |-> "clarification_needed", message |-> tool_result.message,
              account_summary |-> NoReport]
        ELSE IF tool_result.response_type = "success"
        THEN [type |-> "success", message |-> tool_result.message,
              account_summary |->
                  IF tool_result.account_summary # "absent"
                         /\ account_summary_data # NoReport
                  THEN account_summary_data
                  ELSE IF final_account_summary_dict # NoReport
                       THEN final_account_summary_dict
                       ELSE DemoReport]
        ELSE [type |-> "error",
              message |-> IF tool_result.message = <<>> THEN UnknownErrorMessage
                          ELSE tool_result.message,
              account_summary |-> NoReport]

\* mutant: the last structured observation is answered
process_agent_result_Last(steps, stored) ==
    LET structured == SelectSeq(steps, LAMBDA observation : observation.response_type # Null)
    IN  IF structured # <<>>
        THEN convert_tool_result_to_response(structured[Len(structured)], stored)
        ELSE [type |-> "error", message |-> AgentOutput, account_summary |-> NoReport]

\* _process_agent_result: the first observation that is a dict with
\* "response_type" is answered; without one, the agent's text as an error
process_agent_result(steps, stored) ==
    LET structured == SelectSeq(steps, LAMBDA observation : observation.response_type # Null)
    IN  IF structured # <<>>
        THEN convert_tool_result_to_response(structured[1], stored)
        ELSE [type |-> "error", message |-> AgentOutput, account_summary |-> NoReport]

ChainRequests ==
    { Request(QueryBudget, TwoGroupReport),
      Request(QueryPlain, TwoGroupReport),
      Request(QueryPlain, OneGroupReport),
      Request(QueryPlain, NoReport) }

\* the calls of a chain; identify_column_group is handed the request's query
\* and the stored report
ChainCalls ==
    { [NoArgs EXCEPT !.tool = "select_column_group", !.group_name = BudgetData,
                     !.message = MsgSelected],
      [NoArgs EXCEPT !.tool = "select_column_group", !.group_name = SelForecast,
                     !.message = MsgSelected],
      FilterOperationInput("add_filter", AvailableFilters[2], "1", "equal", MsgDone),
      [NoArgs EXCEPT !.tool = "remove_all_filters", !.message = RemovedAllText],
      [NoArgs EXCEPT !.tool = "get_filter_values", !.filter_name = fiscal_period],
      [NoArgs EXCEPT !.tool = "identify_column_group", !.user_query = user_query,
                     !.account_summary = account_summary_dict,
                     !.message = ClarificationMessage] }

ChainInit ==
    /\ \E request \in ChainRequests : initialize_filter_state(request)
    /\ result = NoResult
    /\ call = NoArgs
    /\ before = [account_summary_dict |-> account_summary_dict,
                 current_column_group_id |-> current_column_group_id,
                 current_filters |-> current_filters,
                 user_query |-> user_query,
                 available_filters |-> available_filters,
                 initial_filters |-> initial_filters]
    /\ composed = FiltersById(account_summary_dict)
    /\ explicit_selection = FALSE
    /\ calls = 0
    /\ response_data = NoneNode
    /\ sanitized = <<>>
    /\ thread_state = <<>>
    /\ threads = <<>>
    /\ StoreInit
    /\ AgentInit

\* AgentExecutor runs one tool and records (action, observation); `after` is
\* the Session State the tool leaves and `observation` the dict it returns
agent_calls_tool ==
    \E c \in ChainCalls :
        \E after \in {ChainSessionAfter(CurrentSession, c)} :
        \E observation \in {ToolResult(CurrentSession, c, after.account_summary_dict)} :
            /\ calls < MaxCalls
            /\ response = NoResponse
            /\ account_summary_dict' = after.account_summary_dict
            /\ current_column_group_id' = after.current_column_group_id
            /\ current_filters' = after.current_filters
            /\ result' = [response_type |-> observation.response_type,
                          message |-> observation.message,
                          available_groups |-> observation.available_groups]
            /\ call' = c
            /\ calls' = calls + 1
            /\ before' = [account_summary_dict |-> account_summary_dict,
                          current_column_group_id |-> current_column_group_id,
                          current_filters |-> current_filters,
                          user_query |-> user_query,
                          available_filters |-> available_filters,
                          initial_filters |-> initial_filters]
            /\ composed' = FiltersById(after.account_summary_dict)
            /\ intermediate_steps' = Append(intermediate_steps, observation)
            /\ UNCHANGED << user_query, available_filters, initial_filters,
                            delphi_session, explicit_selection, response_data,
                            sanitized, thread_state, threads, store_vars, response >>

\* the agent finishes and process_request builds the response
agent_finishes ==
    /\ response = NoResponse
    /\ response' = process_agent_result(intermediate_steps, account_summary_dict)
    /\ UNCHANGED << account_summary_dict, current_column_group_id, user_query,
                    available_filters, current_filters, initial_filters,
                    delphi_session, result, call, before, composed,
                    explicit_selection, calls, response_data, sanitized,
                    thread_state, threads, store_vars, intermediate_steps >>

ChainNext ==
    \/ agent_calls_tool
    \/ agent_finishes

ChainSpec == ChainInit /\ [][ChainNext]_vars

----------------------------------------------------------------------------
(* Properties *)

Reconciliation ==
    {"add_filter", "modify_filter", "remove_filter", "remove_multiple_filters",
     "remove_all_filters", "add_or_filter"}

Succeeded == result.response_type = "success"

\* the stored filters of the column group with this id
StoredFilters(account_summary, column_group_id) ==
    LET i == GroupIndex(account_summary, column_group_id)
    IN  IF i = 0 THEN <<>> ELSE account_summary.columnGroups[i].filters

\* after a successful reconciliation call its target is the stored target id
BeforeFilters == StoredFilters(before.account_summary_dict, current_column_group_id)

AfterFilters == StoredFilters(account_summary_dict, current_column_group_id)

\* the FilterGroups the last call read from its target
ExistingBefore == ExistingFilters(before.account_summary_dict, current_column_group_id)

\* the groups the last call read, as they are stored when written back
PreviousGroups == FilterDicts(ExistingBefore)

TypePresentBefore ==
    \E i \in 1..Len(ExistingBefore) : HasFilterType(ExistingBefore[i], call)

\* the condition is the one the call asked for
IsRequestedCondition(condition, value) ==
    /\ condition.value = value
    /\ condition.operator = call.operator
    /\ \/ condition.columnName = call.filter_name
       \/ \E k \in 1..Len(available_filters) :
              /\ available_filters[k].label = call.filter_name
              /\ condition.columnName = available_filters[k].name

\* C1: a reconciliation call changes at most the filters of the targeted column
\* group; every other column group and every other field of the stored report
\* is as it was before the call
C1_FrameEffect ==
    call.tool \in Reconciliation =>
        LET old == before.account_summary_dict
            new == account_summary_dict
        IN  IF old = NoReport THEN new = NoReport
            ELSE /\ new # NoReport
                 /\ new.opaque = old.opaque
                 /\ Len(new.columnGroups) = Len(old.columnGroups)
                 /\ \A i \in 1..Len(old.columnGroups) :
                        /\ new.columnGroups[i].id = old.columnGroups[i].id
                        /\ new.columnGroups[i].name = old.columnGroups[i].name
                        /\ new.columnGroups[i].config = old.columnGroups[i].config
                        /\ new.columnGroups[i].filters # old.columnGroups[i].filters
                              => /\ Succeeded
                                 /\ old.columnGroups[i].id = current_column_group_id

C1_Witness ==
    /\ call.tool \in Reconciliation
    /\ Succeeded
    /\ AfterFilters # BeforeFilters
    /\ \E i \in 1..Len(account_summary_dict.columnGroups) :
           /\ account_summary_dict.columnGroups[i].id # current_column_group_id
           /\ account_summary_dict.columnGroups[i].filters # <<>>

\* C2: add_filter for a filter type no group of the target holds keeps the
\* previous groups in order and appends one `and` group with the one requested
\* condition
C2_AddNewType ==
    (call.tool = "add_filter" /\ Succeeded /\ ~TypePresentBefore) =>
        /\ Len(AfterFilters) = Len(PreviousGroups) + 1
        /\ SubSeq(AfterFilters, 1, Len(PreviousGroups)) = PreviousGroups
        /\ LET added == AfterFilters[Len(AfterFilters)]
           IN  /\ added.operator = "and"
               /\ Len(added.value) = 1
               /\ IsRequestedCondition(added.value[1], call.filter_value)

C2_Witness ==
    /\ call.tool = "add_filter"
    /\ Succeeded
    /\ ~TypePresentBefore
    /\ PreviousGroups # <<>>
    /\ PreviousGroups = BeforeFilters

\* C3 as claimed: add_filter for a filter type that a group of the target holds
\* under the same source classification (the classification the earlier call or
\* the initialization gave the group) appends one condition to that group,
\* keeps the group count and leaves the other groups equal
C3_AddToExistingGroup ==
    LET computed == before.current_filters
        Same(i) == /\ HasFilterType(computed[i], call)
                   /\ computed[i].source_type = call.filter_type
    IN  ( /\ call.tool = "add_filter"
          /\ Succeeded
          /\ FilterDicts(computed) = BeforeFilters
          /\ \E i \in 1..Len(computed) : Same(i) )
        => /\ Len(AfterFilters) = Len(BeforeFilters)
           /\ \A i \in 1..Len(BeforeFilters) :
                 IF Same(i)
                 THEN /\ AfterFilters[i].operator = BeforeFilters[i].operator
                      /\ Len(AfterFilters[i].value) = Len(BeforeFilters[i].value) + 1
                      /\ SubSeq(AfterFilters[i].value, 1, Len(BeforeFilters[i].value))
                            = BeforeFilters[i].value
                      /\ IsRequestedCondition(
                            AfterFilters[i].value[Len(AfterFilters[i].value)],
                            call.filter_value)
                 ELSE AfterFilters[i] = BeforeFilters[i]

\* C4: after a successful reconciliation call the target's stored filters are
\* the list the call computed, and every column group's stored filters are the
\* calls of the request applied, in order, to the group's initial list
C4_WriteBackComposes ==
    /\ (call.tool \in Reconciliation /\ Succeeded)
          => AfterFilters = FilterDicts(current_filters)
    /\ FiltersById(account_summary_dict) = composed

C4_Witness ==
    /\ calls >= 2
    /\ call.tool \in Reconciliation
    /\ Succeeded
    /\ current_column_group_id = account_summary_dict.columnGroups[1].id
    /\ BeforeFilters # FilterDicts(initial_filters)
    /\ AfterFilters # BeforeFilters
    /\ AfterFilters # <<>>

\* the resolver's answer for the request's query on the report the call found
Resolved == identify_target_column_group(user_query, before.account_summary_dict)

\* C5 as claimed: with two or more column groups, a query that matches none of
\* them and no explicit selection, a reconciliation call returns
\* clarification_needed with the named groups and leaves the report unchanged
C5_ClarificationWhenAmbiguous ==
    ( /\ call.tool \in Reconciliation
      /\ Len(ColumnGroupsOf(before.account_summary_dict)) >= 2
      /\ Resolved.kind = "clarification"
      /\ ~explicit_selection )
    => /\ result.response_type = "clarification_needed"
       /\ result.available_groups = GroupNames(before.account_summary_dict.columnGroups)
       /\ account_summary_dict = before.account_summary_dict

\* C6 as claimed: with several column groups and a query naming one of them, a
\* reconciliation call made without explicit selection changes no filters but
\* those of the group the resolver returns for the query
C6_ResolvedGroupIsModified ==
    ( /\ call.tool \in Reconciliation
      /\ Succeeded
      /\ Len(ColumnGroupsOf(before.account_summary_dict)) >= 2
      /\ Resolved.kind = "id"
      /\ ~explicit_selection )
    => \A i \in 1..Len(account_summary_dict.columnGroups) :
           account_summary_dict.columnGroups[i].id # Resolved.id
              => account_summary_dict.columnGroups[i].filters
                    = before.account_summary_dict.columnGroups[i].filters

C8_ModifyWithoutMatchIsAdd ==
    (call.tool = "modify_filter" /\ Succeeded /\ ~TypePresentBefore) =>
        account_summary_dict =
            update_column_group_filters(
                before.account_summary_dict, current_column_group_id,
                FilterDicts(AddFilterUpdated(ExistingBefore, call, available_filters)))

C8_Witness ==
    /\ call.tool = "modify_filter"
    /\ Succeeded
    /\ ~TypePresentBefore
    /\ BeforeFilters # <<>>
    /\ Len(AfterFilters) = Len(BeforeFilters) + 1

\* indices of the groups that keep a condition when the requested type goes
Surviving(groups) ==
    SelectSeq([i \in 1..Len(groups) |-> i],
              LAMBDA i : \E k \in 1..Len(groups[i].value) :
                            ~SameFilterType(groups[i].value[k],
                                            call.filter_name, call.filter_label))

\* C9: after remove_filter (no remove-all wording in the message) no condition
\* of the requested type is left; the other conditions stay in their groups in
\* order; groups left empty are gone; groups without a match are unchanged
C9_RemoveFilter ==
    (call.tool = "remove_filter" /\ Succeeded /\ ~IsRemoveAllMessage(call.message)) =>
        LET kept == Surviving(PreviousGroups)
        IN  /\ Len(AfterFilters) = Len(kept)
            /\ \A n \in 1..Len(kept) :
                  /\ AfterFilters[n].operator = PreviousGroups[kept[n]].operator
                  /\ AfterFilters[n].value =
                        SelectSeq(PreviousGroups[kept[n]].value,
                                  LAMBDA condition :
                                      ~SameFilterType(condition, call.filter_name,
                                                      call.filter_label))
                  /\ AfterFilters[n].value # <<>>

C9_Witness ==
    /\ call.tool = "remove_filter"
    /\ Succeeded
    /\ ~IsRemoveAllMessage(call.message)
    /\ PreviousGroups = BeforeFilters
    /\ Len(AfterFilters) = 1
    /\ Len(BeforeFilters) = 2
    /\ AfterFilters[1] # BeforeFilters[1]
    /\ AfterFilters[1] # BeforeFilters[2]

\* C10 as claimed: no filter group stored in a column group has zero conditions
C10_NoEmptyGroupStored ==
    \A i \in 1..Len(ColumnGroupsOf(account_summary_dict)) :
        \A j \in 1..Len(account_summary_dict.columnGroups[i].filters) :
            account_summary_dict.columnGroups[i].filters[j].value # <<>>

\* the column name, normalized, contains a requested type, normalized, or is
\* contained in one
MatchesRequestedType(condition) ==
    \E t \in 1..Len(call.filter_types) :
        LET requested == SpaceToUnderscore(Lower(call.filter_types[t]))
            name == SpaceToUnderscore(Lower(condition.columnName))
        IN  Contains(name, requested) \/ Contains(requested, name)

\* C11: remove_multiple_filters drops whole every group of the target with a
\* condition matching a requested type and keeps the other groups, unchanged
\* and in order
C11_RemoveMultipleDropsGroups ==
    (call.tool = "remove_multiple_filters" /\ Succeeded) =>
        AfterFilters =
            SelectSeq(PreviousGroups,
                      LAMBDA group : ~\E k \in 1..Len(group.value) :
                                          MatchesRequestedType(group.value[k]))

C11_Witness ==
    /\ call.tool = "remove_multiple_filters"
    /\ Succeeded
    /\ PreviousGroups = BeforeFilters
    /\ Len(BeforeFilters) = 2
    /\ AfterFilters = <<BeforeFilters[2]>>
    /\ \E k \in 1..Len(BeforeFilters[1].value) :
           ~MatchesRequestedType(BeforeFilters[1].value[k])

\* the call found Session State as a successful remove_all_filters leaves it:
\* no filters stored in the target, none in current_filters
FoundCleared ==
    /\ Truthy(before.current_column_group_id)
    /\ StoredFilters(before.account_summary_dict, before.current_column_group_id) = <<>>
    /\ before.current_filters = <<>>

\* C12: remove_all_filters leaves the target with no filters, whatever it held,
\* and remove_all_filters applied to the state a remove_all_filters left leaves
\* Session State as it found it
C12_RemoveAllIdempotent ==
    (call.tool = "remove_all_filters" /\ Succeeded) =>
        /\ AfterFilters = <<>>
        /\ current_filters = <<>>
        /\ FoundCleared
              => /\ account_summary_dict = before.account_summary_dict
                 /\ current_column_group_id = before.current_column_group_id
                 /\ current_filters = before.current_filters

C12_Witness ==
    /\ call.tool = "remove_all_filters"
    /\ Succeeded
    /\ FoundCleared
    /\ calls >= 2
    /\ initial_filters # <<>>
    /\ current_column_group_id = account_summary_dict.columnGroups[1].id
    /\ AfterFilters = <<>>

\* C13: add_or_filter for a filter type no group of the target holds keeps the
\* previous groups and appends one `or` group with one condition per value, in
\* the order of the values
C13_AddOrNewType ==
    (call.tool = "add_or_filter" /\ Succeeded /\ ~TypePresentBefore) =>
        /\ Len(AfterFilters) = Len(PreviousGroups) + 1
        /\ SubSeq(AfterFilters, 1, Len(PreviousGroups)) = PreviousGroups
        /\ LET added == AfterFilters[Len(AfterFilters)]
           IN  /\ added.operator = "or"
               /\ Len(added.value) = Len(call.filter_values)
               /\ \A k \in 1..Len(call.filter_values) :
                      IsRequestedCondition(added.value[k], call.filter_values[k])

C13_Witness ==
    /\ call.tool = "add_or_filter"
    /\ Succeeded
    /\ ~TypePresentBefore
    /\ call.filter_values = <<"10", "1">>
    /\ PreviousGroups # <<>>
    /\ PreviousGroups = BeforeFilters
    /\ AfterFilters[Len(AfterFilters)].value[1].value = "10"
    /\ AfterFilters[Len(AfterFilters)].value[2].value = "1"

\* C14 as claimed: add_or_filter for a filter type that a group of the target
\* holds under the same source classification (the classification the earlier
\* call or the initialization gave the group) replaces that group in place by
\* one `or` group with one condition per value; the group count is unchanged
\* and, for a non-empty list of values, one group holds the type afterwards
C14_AddOrReplacesGroup ==
    LET computed == before.current_filters
        Same(i) == /\ HasFilterType(computed[i], call)
                   /\ computed[i].source_type = call.filter_type
        holding == {i \in 1..Len(AfterFilters) :
                       \E k \in 1..Len(AfterFilters[i].value) :
                           SameFilterType(AfterFilters[i].value[k],
                                          call.filter_name, call.filter_label)}
    IN  ( /\ call.tool = "add_or_filter"
          /\ Succeeded
          /\ FilterDicts(computed) = BeforeFilters
          /\ \E i \in 1..Len(computed) : Same(i) )
        => /\ Len(AfterFilters) = Len(BeforeFilters)
           /\ \A i \in 1..Len(BeforeFilters) :
                 IF Same(i)
                 THEN /\ AfterFilters[i].operator = "or"
                      /\ Len(AfterFilters[i].value) = Len(call.filter_values)
                      /\ \A k \in 1..Len(call.filter_values) :
                             IsRequestedCondition(AfterFilters[i].value[k],
                                                  call.filter_values[k])
                 ELSE AfterFilters[i] = BeforeFilters[i]
           /\ call.filter_values # <<>> => Cardinality(holding) = 1

C16_SelectColumnGroup ==
    (call.tool = "select_column_group" /\ before.account_summary_dict # NoReport) =>
        LET column_groups == before.account_summary_dict.columnGroups
            wanted  == Lower(call.group_name)
            exact   == SelectSeq(column_groups,
                           LAMBDA g : g.name # <<>> /\ Lower(g.name) = wanted)
            partial == SelectSeq(column_groups,
                           LAMBDA g : g.name # <<>> /\ Contains(Lower(g.name), wanted))
        IN  /\ account_summary_dict = before.account_summary_dict
            /\ IF exact # <<>>
               THEN Succeeded /\ current_column_group_id = exact[1].id
               ELSE IF partial # <<>>
               THEN Succeeded /\ current_column_group_id = partial[1].id
               ELSE /\ result.response_type = "error"
                    /\ current_column_group_id = before.current_column_group_id

\* C17: with no report stored, each reconciliation tool and select_column_group
\* returns the no-account-summary error and leaves every field of Session
\* State as it found it
C17_NoReportIsAnError ==
    ( /\ call.tool \in Reconciliation \cup {"select_column_group"}
      /\ before.account_summary_dict = NoReport )
    => /\ result.response_type = "error"
       /\ result.message = NoSummaryMessage
       /\ account_summary_dict = NoReport
       /\ current_column_group_id = before.current_column_group_id
       /\ current_filters = before.current_filters
       /\ user_query = before.user_query
       /\ available_filters = before.available_filters
       /\ initial_filters = before.initial_filters

C17_Witness ==
    /\ call.tool \in Reconciliation \cup {"select_column_group"}
    /\ before.account_summary_dict = NoReport
    /\ calls >= 2
    /\ result.response_type = "error"

\* the column groups of the report handed to identify_column_group
IdentifyGroups == ColumnGroupsOf(call.account_summary)

\* C18: the resolver answers with the id of the only column group whatever the
\* query says, and with the no-groups error, not a clarification, for a report
\* without column groups
C18_SingleGroupAndNoGroups ==
    call.tool = "identify_column_group" =>
        /\ Len(IdentifyGroups) = 1 =>
               /\ Succeeded
               /\ current_column_group_id = IdentifyGroups[1].id
        /\ Len(IdentifyGroups) = 0 =>
               /\ result.response_type = "error"
               /\ result.message = NoGroupsMessage
               /\ current_column_group_id = before.current_column_group_id

C18_Witness ==
    /\ call.tool = "identify_column_group"
    /\ Len(IdentifyGroups) = 1
    /\ IdentifyGroups[1].name = <<>>
    /\ call.user_query = QueryBudget
    /\ Succeeded
    /\ current_column_group_id = "cg-1"

\* the {id, name} pairs of the groups handed over that carry a display name
NamedGroups ==
    LET named == SelectSeq(IdentifyGroups, LAMBDA g : g.name # <<>>)
    IN  [i \in 1..Len(named) |-> [id |-> named[i].id, name |-> named[i].name]]

\* no rule of the resolver matches a named group
NoRuleMatches ==
    \A i \in 1..Len(NamedGroups) :
        /\ ~DirectMatch(NamedGroups[i], Lower(call.user_query))
        /\ ~WordMatch(NamedGroups[i], Lower(call.user_query))
        /\ ~SynonymMatch(NamedGroups[i], Lower(call.user_query))

\* C19: with the groups "Actuals Data" and "Budget Data" the query "filter
\* actuals by fiscal period 10" resolves to "Actuals Data" and "filter by fiscal
\* period 10" to a clarification listing both groups in order; with two or more
\* groups and no rule matching, the answer is a clarification, and every
\* clarification lists the groups that carry a display name, in report order
C19_ResolverRules ==
    call.tool = "identify_column_group" =>
        LET two == /\ Len(IdentifyGroups) = 2
                   /\ IdentifyGroups[1].name = ActualsData
                   /\ IdentifyGroups[2].name = BudgetData
        IN  /\ (two /\ call.user_query = QueryActuals) =>
                   /\ Succeeded
                   /\ current_column_group_id = IdentifyGroups[1].id
            /\ (two /\ call.user_query = QueryPlain) =>
                   /\ result.response_type = "clarification_needed"
                   /\ result.available_groups =
                         << [id |-> IdentifyGroups[1].id, name |-> ActualsData],
                            [id |-> IdentifyGroups[2].id, name |-> BudgetData] >>
            /\ (Len(IdentifyGroups) >= 2 /\ NoRuleMatches) =>
                   result.response_type = "clarification_needed"
            /\ result.response_type = "clarification_needed" =>
                   /\ result.available_groups = NamedGroups
                   /\ current_column_group_id = before.current_column_group_id

C19_Witness ==
    /\ call.tool = "identify_column_group"
    /\ result.response_type = "clarification_needed"
    /\ Len(IdentifyGroups) = 3
    /\ IdentifyGroups[2].name = <<>>
    /\ result.available_groups =
          << [id |-> "cg-1", name |-> ActualsData], [id |-> "cg-3", name |-> BudgetData] >>

\* C20: sanitizing what sanitize_response_object returned returns it unchanged
C20_SanitizeIdempotent ==
    \A k \in 2..Len(sanitized) : sanitized[k] = sanitized[1]

C20_Witness ==
    /\ Len(sanitized) >= 2
    /\ response_data.kind = "dict"
    /\ sanitized[1] # response_data
    /\ \E i \in 1..Len(sanitized[1].items) :
           /\ sanitized[1].items[i].value.kind = "list"
           /\ sanitized[1].items[i].value.items # <<>>
           /\ sanitized[1].items[i].value # response_data.items[i].value

\* an object with, at every depth, no unwanted key, no key whose value is None
\* and no None in a list
RECURSIVE IsSanitized(_)
IsSanitized(obj) ==
    obj.kind \in {"dict", "list"} =>
        \A i \in 1..Len(obj.items) :
            /\ obj.kind = "dict" => obj.items[i].key \notin UNWANTED_PROPERTIES
            /\ obj.items[i].value.kind # "none"
            /\ IsSanitized(obj.items[i].value)

\* the positions of a dictionary or list whose key is wanted and whose value
\* is not None, in order
WantedPositions(obj) ==
    SelectSeq([i \in 1..Len(obj.items) |-> i],
              LAMBDA i : /\ obj.kind = "dict" => obj.items[i].key \notin UNWANTED_PROPERTIES
                         /\ obj.items[i].value.kind # "none")

\* output holds, in order and under the same keys, what input holds at its
\* wanted positions, each kept in the same way; a scalar is kept as it is
RECURSIVE KeepsTheRest(_, _)
KeepsTheRest(input, output) ==
    IF input.kind \in {"dict", "list"}
    THEN /\ output.kind = input.kind
         /\ Len(output.items) = Len(WantedPositions(input))
         /\ \A k \in 1..Len(output.items) :
                /\ output.items[k].key = input.items[WantedPositions(input)[k]].key
                /\ KeepsTheRest(input.items[WantedPositions(input)[k]].value,
                                output.items[k].value)
    ELSE output = input

C22_DimensionWithJoinColumn ==
    (call.tool \in Reconciliation /\ Succeeded) =>
        \A i \in 1..Len(AfterFilters) :
            \A j \in 1..Len(AfterFilters[i].value) :
                (AfterFilters[i].value[j].dimension = Null)
                    <=> (AfterFilters[i].value[j].joinColumnName = Null)

\* C23: when a request begins on a worker that processed another request
\* before, every Session State field is what this request alone gives: its
\* report, its first column group (or none) as the target, its query, its
\* available filters, the filters ingested from its first column group, its
\* session token; nothing an earlier request wrote is left for the tools
C23_RequestOverwritesSessionState ==
    call.tool = "process_request" =>
        LET request == call.request
            groups  == IF request.account_summary = NoReport THEN <<>>
                       ELSE request.account_summary.columnGroups
        IN  /\ account_summary_dict = request.account_summary
            /\ current_column_group_id = (IF groups = <<>> THEN Null ELSE groups[1].id)
            /\ user_query = request.query
            /\ available_filters = request.available_filters
            /\ current_filters = (IF groups = <<>> THEN <<>>
                                  ELSE IngestFilters(groups[1].filters))
            /\ initial_filters = current_filters
            /\ delphi_session = request.delphi_session

\* a request without a report begins after a request whose tools had selected
\* the second column group of its report
C23_Witness ==
    /\ call.tool = "process_request"
    /\ before.current_column_group_id = "cg-budget"
    /\ before.account_summary_dict = TwoGroupReport
    /\ before.user_query = QueryBudget
    /\ before.current_filters # <<>>
    /\ before.available_filters # available_filters
    /\ account_summary_dict = NoReport
    /\ current_column_group_id = Null
    /\ user_query = QueryPlain
    /\ current_filters = <<>>

C25_MessageEchoed ==
    (call.tool \in Reconciliation \cup {"select_column_group"} /\ Succeeded) =>
        result.message = call.message

\* the messages of the model whose wording says that all filters are removed
RemoveAllWording == {MsgRemoveAll}

\* C26 as claimed: remove_filter with a message whose wording does not say
\* "remove all" leaves every group of the target that holds no condition of
\* the requested filter type as it was, in order
C26_RemoveAllOnlyOnRemoveAllWording ==
    (call.tool = "remove_filter" /\ Succeeded /\ call.message \notin RemoveAllWording) =>
        LET Untouched(groups) ==
                SelectSeq(groups, LAMBDA group : ~HasFilterType(group, call))
        IN  Untouched(PreviousGroups) = Untouched(AfterFilters)

\* C27 as claimed: the groups a reconciliation call reads from its target are
\* the FilterGroups the call before it wrote there, with the same operator,
\* the same conditions and the same source classification
C27_SourceTypeRoundTrip ==
    ( /\ call.tool \in Reconciliation
      /\ Succeeded
      /\ calls >= 2
      /\ FilterDicts(before.current_filters) = BeforeFilters )
    => ExistingBefore = before.current_filters

\* indices of the groups remove_multiple_filters keeps
KeptByRemoveMultiple(groups) ==
    SelectSeq([i \in 1..Len(groups) |-> i],
              LAMBDA i : ~\E k \in 1..Len(groups[i].value) :
                              MatchesRequestedType(groups[i].value[k]))

\* C28: after add_filter, modify_filter, remove_filter and
\* remove_multiple_filters every group of the target that was there before and
\* is still there has the logical operator it had (add and modify keep the
\* groups in place, the removals keep the remaining groups in order); only
\* add_or_filter leaves an earlier group with another operator
C28_LogicalOperatorPreserved ==
    Succeeded =>
        CASE call.tool \in {"add_filter", "modify_filter"} ->
                /\ Len(AfterFilters) >= Len(PreviousGroups)
                /\ \A i \in 1..Len(PreviousGroups) :
                       AfterFilters[i].operator = PreviousGroups[i].operator
          [] call.tool = "remove_filter" ->
                /\ Len(AfterFilters) <= Len(Surviving(PreviousGroups))
                /\ \A n \in 1..Len(AfterFilters) :
                       AfterFilters[n].operator =
                           PreviousGroups[Surviving(PreviousGroups)[n]].operator
          [] call.tool = "remove_multiple_filters" ->
                /\ Len(AfterFilters) = Len(KeptByRemoveMultiple(PreviousGroups))
                /\ \A n \in 1..Len(AfterFilters) :
                       AfterFilters[n].operator =
                           PreviousGroups[KeptByRemoveMultiple(PreviousGroups)[n]].operator
          [] OTHER -> TRUE

\* add_filter has put a condition into an `or` group that an earlier
\* add_or_filter had made of an `and` group
C28_Witness ==
    /\ call.tool = "add_filter"
    /\ Succeeded
    /\ initial_filters # <<>>
    /\ initial_filters[1].operator = "and"
    /\ PreviousGroups # <<>>
    /\ PreviousGroups[1].operator = "or"
    /\ Len(AfterFilters) = Len(PreviousGroups)
    /\ AfterFilters[1].operator = "or"
    /\ Len(AfterFilters[1].value) = Len(PreviousGroups[1].value) + 1

\* a name or label in the underscore form: lower case, spaces as underscores
UnderscoreForm(text) == SpaceToUnderscore(Lower(text))

\* C29 as claimed: a stored condition matches the requested filter type
\* whenever its column identifier and the requested name, or the requested
\* label, are equal in the underscore form
C29_MatchNormalizesBothSides ==
    result.response_type \in {"same_filter_type", "other_filter_type"} =>
        LET columnName == current_filters[1].value[1].columnName
        IN  ( \/ UnderscoreForm(columnName) = UnderscoreForm(call.filter_name)
              \/ UnderscoreForm(columnName) = UnderscoreForm(call.filter_label) )
            => result.response_type = "same_filter_type"

\* the named groups handed over, by position, whose full display name occurs
\* in the query (case-insensitively)
FullNameInQuery ==
    {i \in 1..Len(NamedGroups) :
        Contains(Lower(call.user_query), Lower(NamedGroups[i].name))}

\* the named groups of which a word longer than two characters occurs in the query
WordInQuery ==
    {i \in 1..Len(NamedGroups) :
        \E k \in 1..Len(Split(Lower(NamedGroups[i].name))) :
            /\ Len(Split(Lower(NamedGroups[i].name))[k]) > 2
            /\ Contains(Lower(call.user_query), Split(Lower(NamedGroups[i].name))[k])}

\* C30: with two or more groups, the resolver answers with the first group in
\* report order whose full display name occurs in the query, also when an
\* earlier group has a word that occurs in the query; only when no full name
\* occurs does it answer with the first group of which a word occurs
C30_FullNameBeforeWord ==
    (call.tool = "identify_column_group" /\ Len(IdentifyGroups) >= 2) =>
        /\ FullNameInQuery # {} =>
               /\ Succeeded
               /\ \E i \in FullNameInQuery :
                      /\ \A j \in FullNameInQuery : i <= j
                      /\ current_column_group_id = NamedGroups[i].id
        /\ (FullNameInQuery = {} /\ WordInQuery # {}) =>
               /\ Succeeded
               /\ \E i \in WordInQuery :
                      /\ \A j \in WordInQuery : i <= j
                      /\ current_column_group_id = NamedGroups[i].id

\* "show forecast data for period 10" with the groups Actuals Data, Forecast:
\* the word "data" of the first group occurs, the answer is the second group
C30_Witness ==
    /\ call.tool = "identify_column_group"
    /\ call.user_query = QueryForecastData
    /\ Len(IdentifyGroups) = 2
    /\ IdentifyGroups[1].name = ActualsData
    /\ IdentifyGroups[2].name = SelForecast
    /\ 1 \in WordInQuery
    /\ FullNameInQuery = {2}
    /\ Succeeded
    /\ current_column_group_id = "cg-2"

\* the named groups handed over of which a word of one or two characters
\* occurs in the query
ShortWordInQuery ==
    {i \in 1..Len(NamedGroups) :
        \E k \in 1..Len(Split(Lower(NamedGroups[i].name))) :
            /\ Len(Split(Lower(NamedGroups[i].name))[k]) <= 2
            /\ Contains(Lower(call.user_query), Split(Lower(NamedGroups[i].name))[k])}

\* no named group is matched through the synonyms table
NoSynonymInQuery ==
    \A i \in 1..Len(NamedGroups) : ~SynonymMatch(NamedGroups[i], Lower(call.user_query))

\* C31: with two or more groups and no full display name in the query, the
\* resolver answers with the first group in report order of which a word longer
\* than two characters occurs in the lower-cased query; a word of one or two
\* characters does not count (without a longer word or a synonym the answer is
\* a clarification), and a group without a display name is never the answer
C31_TokenMatch ==
    (call.tool = "identify_column_group" /\ Len(IdentifyGroups) >= 2) =>
        /\ (FullNameInQuery = {} /\ WordInQuery # {}) =>
               /\ Succeeded
               /\ \E i \in WordInQuery :
                      /\ \A j \in WordInQuery : i <= j
                      /\ current_column_group_id = NamedGroups[i].id
        /\ (FullNameInQuery = {} /\ WordInQuery = {} /\ NoSynonymInQuery) =>
               /\ result.response_type = "clarification_needed"
               /\ current_column_group_id = before.current_column_group_id
        /\ Succeeded =>
               \A i \in 1..Len(IdentifyGroups) :
                   IdentifyGroups[i].name = <<>> =>
                       current_column_group_id # IdentifyGroups[i].id

\* "filter by fiscal period 10" with the groups By Fund, (no name), Budget Data:
\* the word "by" occurs in the query and the answer is a clarification
C31_Witness ==
    /\ call.tool = "identify_column_group"
    /\ call.user_query = QueryPlain
    /\ Len(IdentifyGroups) = 3
    /\ IdentifyGroups[1].name = ByFund
    /\ IdentifyGroups[2].name = <<>>
    /\ IdentifyGroups[3].name = BudgetData
    /\ ShortWordInQuery = {1}
    /\ result.response_type = "clarification_needed"

\* the values the last call asked conditions for
RequestedValues ==
    IF call.tool = "add_or_filter"
    THEN {call.filter_values[k] : k \in 1..Len(call.filter_values)}
    ELSE {call.filter_value}

\* C32 as claimed: after a successful add_filter, modify_filter or add_or_filter
\* the conditions of the target that carry the requested column and a requested
\* value have a dimension and a joinColumnName when the call's filter_type is
\* dimensions, and neither when it is lens, also when the available filters of
\* the request hold no record with the requested name
C32_DimensionByFilterType ==
    (call.tool \in {"add_filter", "modify_filter", "add_or_filter"} /\ Succeeded) =>
        \A i \in 1..Len(AfterFilters) :
            \A j \in 1..Len(AfterFilters[i].value) :
                LET condition == AfterFilters[i].value[j]
                IN  (/\ condition.columnName = ActualFilterName(call.filter_name, available_filters)
                     /\ condition.value \in RequestedValues) =>
                        IF call.filter_type = "dimensions"
                        THEN condition.dimension # Null /\ condition.joinColumnName # Null
                        ELSE condition.dimension = Null /\ condition.joinColumnName = Null

\* C33 as claimed: an operator outside the enum makes no operation fail and is
\* read as equal: a stored condition that carries one is written back with
\* equal, and add_filter, modify_filter and add_or_filter called with one
\* succeed and store their conditions with equal
C33_UnknownOperatorIsEqual ==
    (call.tool \in {"add_filter", "modify_filter", "add_or_filter"}
        /\ result.response_type \notin {"clarification_needed", "error"}) =>
        /\ Succeeded
        /\ \A i \in 1..Len(AfterFilters) :
               \A j \in 1..Len(AfterFilters[i].value) :
                   AfterFilters[i].value[j].operator \in FilterOperator
        /\ call.operator \notin FilterOperator =>
               \A i \in 1..Len(AfterFilters) :
                   \A j \in 1..Len(AfterFilters[i].value) :
                       (/\ AfterFilters[i].value[j].columnName =
                              ActualFilterName(call.filter_name, available_filters)
                        /\ AfterFilters[i].value[j].value \in RequestedValues) =>
                           AfterFilters[i].value[j].operator = "equal"

\* a stored condition is malformed: it has no value
IsMalformed(condition) == condition.value = Null

\* the stored groups without their malformed conditions, and without the
\* groups that have no other condition; the operator of a group stays
WellFormedPart(groups) ==
    LET Valid(value) == SelectSeq(value, LAMBDA condition : ~IsMalformed(condition))
        kept == SelectSeq(groups, LAMBDA g : Valid(g.value) # <<>>)
    IN  [i \in 1..Len(kept) |->
            [operator |-> kept[i].operator, value |-> Valid(kept[i].value)]]

HasMalformed(groups) ==
    \E i \in 1..Len(groups) : \E j \in 1..Len(groups[i].value) :
        IsMalformed(groups[i].value[j])

\* the last call names a filter type of which the target held no condition
TypeAbsentBefore ==
    /\ call.tool \in {"add_filter", "modify_filter", "add_or_filter", "remove_filter"}
    /\ EffectiveTool(call) = call.tool
    /\ \A i \in 1..Len(BeforeFilters) : \A j \in 1..Len(BeforeFilters[i].value) :
           ~SameFilterType(BeforeFilters[i].value[j], call.filter_name, call.filter_label)

\* C34: a reconciliation call on a target whose stored filters hold a malformed
\* condition succeeds; what it stores holds no malformed condition; and when the
\* call names a filter type the target did not hold, the groups it found are
\* stored as they were, in order and with their operators, less the malformed
\* conditions and less the groups that consisted of malformed conditions only
C34_MalformedConditionSkipped ==
    (call.tool \in Reconciliation /\ HasMalformed(BeforeFilters)
        /\ result.response_type # "clarification_needed") =>
        /\ Succeeded
        /\ ~HasMalformed(AfterFilters)
        /\ TypeAbsentBefore =>
               /\ Len(AfterFilters) >= Len(WellFormedPart(BeforeFilters))
               /\ SubSeq(AfterFilters, 1, Len(WellFormedPart(BeforeFilters)))
                     = WellFormedPart(BeforeFilters)

\* add_filter for the fiscal period on the report whose first group holds a
\* malformed condition between two account type conditions
C34_Witness ==
    /\ call.tool = "add_filter"
    /\ call.filter_name = fiscal_period
    /\ before.account_summary_dict = MalformedReport
    /\ Succeeded
    /\ Len(AfterFilters) = 3
    /\ AfterFilters[1] =
          [operator |-> "or",
           value |-> << Condition(account_type, "Accounts Payable", "equal", Null, Null),
                        Condition(account_type, "Revenue", "notEqual", Null, Null) >>]
    /\ AfterFilters[2] = AccountTypeGroup
    /\ AfterFilters[3].value[1].columnName = fiscal_period

\* no add_message call is inside the `with self._lock:` block
NoCallUnderWay == \A thread \in Callers : adding[thread].pc = "idle"

\* C35: however the add_message calls of the threads interleave, once the calls
\* made so far have returned the list of every conversation is the last
\* min(number added, max_messages) messages added to it, in the order in which
\* their calls took the lock: none lost among these, none twice; a list longer
\* than max_messages is never left behind, and never seen by another call
C35_AddMessageAtomic ==
    /\ NoCallUnderWay =>
           \A id \in ConversationIds :
               /\ conversations[id] = LastN(acquired[id], max_messages)
               /\ Len(conversations[id]) <= max_messages
    /\ \A thread \in Callers :
           adding[thread].pc = "append" =>
               /\ conversations[adding[thread].conversation_id] =
                     LastN(SubSeq(acquired[adding[thread].conversation_id], 1,
                                  Len(acquired[adding[thread].conversation_id]) - 1),
                           max_messages)
               /\ \A other \in Callers \ {thread} : adding[other].pc = "idle"

\* both threads added to the same conversation, more than max_messages in all,
\* and the oldest message was dropped
C35_Witness ==
    /\ NoCallUnderWay
    /\ Len(acquired["conv-1"]) > max_messages
    /\ \E i, j \in 1..Len(acquired["conv-1"]) :
           /\ i < j
           /\ acquired["conv-1"][i].content = "thread-2/1"
           /\ acquired["conv-1"][j].content = "thread-1/1"
    /\ Len(conversations["conv-1"]) = max_messages
    /\ conversations["conv-1"][max_messages] = acquired["conv-1"][Len(acquired["conv-1"])]

\* C36 as claimed: with a stored report the target id is null or the id of one
\* of its column groups, whatever tools were called and whatever report
\* identify_column_group was handed; so a reconciliation call that returns
\* success has written to a column group of the stored report
C36_TargetIsStoredGroup ==
    /\ account_summary_dict # NoReport =>
           \/ current_column_group_id = Null
           \/ GroupIndex(account_summary_dict, current_column_group_id) # 0
    /\ (call.tool \in Reconciliation /\ Succeeded) =>
           /\ GroupIndex(account_summary_dict, current_column_group_id) # 0
           /\ AfterFilters = FilterDicts(current_filters)

\* the number of conditions in a stored filters list
RECURSIVE ConditionCount(_)
ConditionCount(groups) ==
    IF groups = <<>> THEN 0
    ELSE Len(Head(groups).value) + ConditionCount(Tail(groups))

\* C37 as claimed: a successful add_filter leaves the target with exactly one
\* condition more than it had, also when several of its groups hold conditions
\* of the requested filter type
C37_AddFilterAddsOne ==
    (call.tool = "add_filter" /\ Succeeded) =>
        ConditionCount(AfterFilters) = ConditionCount(BeforeFilters) + 1

\* two conditions are equal: same column, value and operator
EqualConditions(a, b) ==
    /\ a.columnName = b.columnName
    /\ a.value = b.value
    /\ a.operator = b.operator

\* no group of the stored filters list holds two equal conditions
NoDuplicates(groups) ==
    \A i \in 1..Len(groups) :
        \A j, k \in 1..Len(groups[i].value) :
            j < k => ~EqualConditions(groups[i].value[j], groups[i].value[k])

\* C38 as claimed: when no group of the target held two equal conditions before
\* a successful modify_filter, none does after it, also when the matching group
\* holds several values of the filter stored by add_or_filter
C38_ModifyKeepsConditionsDistinct ==
    (call.tool = "modify_filter" /\ Succeeded /\ NoDuplicates(BeforeFilters)) =>
        NoDuplicates(AfterFilters)

\* the last call was a reconciliation call that raised after its target was
\* determined
FailedAfterTarget ==
    /\ call.tool \in Reconciliation
    /\ result.response_type = "exception"

\* C39 as claimed: when a reconciliation call fails after its target was
\* determined (an operator or filter_type outside the enums), the stored
\* report, the target id and the current-filters list are as before the call
C39_FailureLeavesState ==
    FailedAfterTarget =>
        /\ account_summary_dict = before.account_summary_dict
        /\ current_column_group_id = before.current_column_group_id
        /\ current_filters = before.current_filters

\* the recorded observations that are structured results, in invocation order
StructuredResults ==
    SelectSeq(intermediate_steps, LAMBDA observation : observation.response_type # Null)

====
